---- MODULE Spec2Model ----
(***************************************************************************)
(* Webhook ingestion and message API of the WhatsApp Web simulator:        *)
(* processWebhooks.js (saveMessage, updateMessageStatus, processWebhookFile *)
(* and helpers), controllers/messageController.js (sendMessage) and the     *)
(* Message schema of models/Message.js.  The store is the MongoDB           *)
(* collection processed_messages, kept as the sequence of its documents in  *)
(* insertion order.  Every await on the store is one step of the model.     *)
(***************************************************************************)
EXTENDS Integers, Sequences, FiniteSets, TLC

VARIABLES
    store,   \* the collection: a sequence of message documents
    clock,   \* Date.now() / new Date(), in milliseconds
    env,     \* process.env.BUSINESS_PHONE_NUMBER, or Null when unset
    runs,    \* per ingestion run: position inside processAllWebhookFiles
    log,     \* the last console line written by the backend
    resp,    \* the last HTTP response of the message API
    ops,     \* number of inputs consumed so far: files, entries, requests, ticks
    file,    \* history: the webhook file being read twice, as read the first time
    pass,    \* history: which reading of that file is in progress
    snap,    \* history: the store when the first reading ended
    up,      \* whether the store can be reached; FALSE: every store call throws
    lost,    \* history: the status updates that found no document
    ui       \* the browser: App and ChatWindow state, requests in flight

prog == <<store, clock, env, runs, log, resp>>
hist == <<file, pass, snap, up, lost, ui>>
vars == <<store, clock, env, runs, log, resp, ops, file, pass, snap, up, lost, ui>>

(***************************************************************************)
(* Bounds of the model.                                                    *)
(***************************************************************************)
MaxOps  == 5      \* inputs consumed during one behaviour: webhook files,
                  \* message and status entries, API requests, clock ticks
MaxRand == 1      \* distinct random suffixes of generated message ids

(***************************************************************************)
(* JavaScript values.  null and undefined are the one value Null; a value   *)
(* that may be NaN is an option: <<>> is NaN, <<n>> is the number n.        *)
(***************************************************************************)
Null == "null"
NaN == <<>>
Num(n) == <<n>>
Truthy(s) == s # Null /\ s # ""
OrElse(a, b) == IF Truthy(a) THEN a ELSE b

BUSINESS == "+9999"
DefaultBusinessPhone == "+1234567890"
ALICE == "+1111"
CAROL == "+2222"
Runs == {1, 2}

MessageTypes == {"text", "image", "audio", "video", "document"}
Statuses == {"sent", "delivered", "read", "failed", "received"}

(***************************************************************************)
(* parseInt on a string given as its sequence of characters: leading       *)
(* blanks and one sign are skipped, then the longest run of decimal digits  *)
(* is read; no digit gives NaN.  A missing value is the text "undefined".   *)
(***************************************************************************)
DigitVal == [c \in {"0", "1", "2", "3", "4", "5", "6", "7", "8", "9"} |->
               CASE c = "0" -> 0 [] c = "1" -> 1 [] c = "2" -> 2 [] c = "3" -> 3
                 [] c = "4" -> 4 [] c = "5" -> 5 [] c = "6" -> 6 [] c = "7" -> 7
                 [] c = "8" -> 8 [] c = "9" -> 9]

IsDigit(c) == c \in DOMAIN DigitVal

RECURSIVE SkipBlanks(_)
SkipBlanks(s) == IF s # <<>> /\ Head(s) = " " THEN SkipBlanks(Tail(s)) ELSE s

RECURSIVE ReadDigits(_, _, _)
\* acc is the value read so far, seen says whether a digit was read
ReadDigits(s, acc, seen) ==
    IF s # <<>> /\ IsDigit(Head(s))
    THEN ReadDigits(Tail(s), acc * 10 + DigitVal[Head(s)], TRUE)
    ELSE IF seen THEN Num(acc) ELSE NaN

ParseInt(raw) ==
    LET s == SkipBlanks(raw) IN
    IF s # <<>> /\ Head(s) = "-"
    THEN LET r == ReadDigits(Tail(s), 0, FALSE) IN
         IF r = NaN THEN NaN ELSE Num(0 - r[1])
    ELSE IF s # <<>> /\ Head(s) = "+" THEN ReadDigits(Tail(s), 0, FALSE)
    ELSE ReadDigits(s, 0, FALSE)

\* (variant: the seconds are stored as they are)
TimesOff(x, k) == x

Times(x, k) == IF x = NaN THEN NaN ELSE Num(x[1] * k)

TsOne == <<"1">>
TsTwo == <<"2">>
TsZero == <<"0">>
TsNegative == <<"-", "5">>
TsWord == <<"a", "b", "c">>
TsMixed == <<"1", "x">>
TsMissing == <<"u", "n", "d", "e", "f", "i", "n", "e", "d">>
TsThousand == <<"1", "0", "0", "0">>

\* the clock starts at the instant of the webhook timestamp "1"
StartTime == Times(ParseInt(TsOne), 1000)[1]

(***************************************************************************)
(* Texts are sequences of characters, so that trimming is computed; an     *)
(* absent body and the empty string are both <<>> (body || '' is '').      *)
(***************************************************************************)
TxtHi == <<"h", "i">>
TxtYo == <<"y", "o">>
TxtPadded == <<" ", "h", "i", " ">>
TxtBlank == <<" ">>
TxtEmpty == <<>>

RECURSIVE TrimLeft(_)
TrimLeft(t) == IF t # <<>> /\ Head(t) = " " THEN TrimLeft(Tail(t)) ELSE t

RECURSIVE TrimRight(_)
TrimRight(t) ==
    IF t # <<>> /\ t[Len(t)] = " " THEN TrimRight(SubSeq(t, 1, Len(t) - 1)) ELSE t

Trim(t) == TrimRight(TrimLeft(t))

(***************************************************************************)
(* Webhook payload pieces.                                                 *)
(***************************************************************************)
NullEntry == [null |-> TRUE]
IsNullEntry(e) == "null" \in DOMAIN e

\* a contact with its wa_id and profile.name; a null element of the array
Contact(w, n) == [wa_id |-> w, name |-> n]
NullContact == [null |-> TRUE]
IsNullContact(c) == "null" \in DOMAIN c
ContactLists == {<<>>, <<Contact(CAROL, Null), Contact(ALICE, "Alice")>>}

Entry(id, c) ==
    [id |-> id, from |-> c.from, type |-> c.type, text |-> c.text,
     timestamp |-> c.timestamp]

\* the contents a message entry of the model may carry
Contents ==
    {[from |-> ALICE, type |-> "text", text |-> TxtHi, timestamp |-> TsOne],
     [from |-> BUSINESS, type |-> "text", text |-> TxtYo, timestamp |-> TsZero]}

MsgIds == {"m1", "m2"}
MsgEntries == {Entry(id, c) : id \in MsgIds, c \in Contents} \cup {NullEntry}

StatusValues == {"read", "bogus"}
StatusEntries ==
    [id : MsgIds, meta_msg_id : {Null}, status : StatusValues]
    \cup {[id |-> Null, meta_msg_id |-> "m1", status |-> "delivered"],
          [id |-> Null, meta_msg_id |-> Null, status |-> "read"],
          NullEntry}

\* what processWebhookFile finds in one file: the parse result, the nested
\* path, the metadata, the contacts and the lengths of the two entry arrays
Files ==
    [kind : {"ok"}, display : {BUSINESS, Null}, contacts : ContactLists,
     nMsgs : 0..MaxOps, nSts : 0..MaxOps]
    \cup [kind : {"badjson", "nopath"}, display : {Null}, contacts : {<<>>},
          nMsgs : {0}, nSts : {0}]

(***************************************************************************)
(* models/Message.js: validation of a document on save.                    *)
(***************************************************************************)
RequiredString(v) == v # Null /\ v # ""

\* (variant: toNumber is not required)
ValidateNoRecipient(d) ==
    /\ RequiredString(d.messageId)
    /\ RequiredString(d.wa_id)
    /\ RequiredString(d.fromNumber)
    /\ d.messageType \in MessageTypes
    /\ d.timestamp # NaN
    /\ d.status \in Statuses

\* (variant: messageType has no enum)
ValidateNoEnum(d) ==
    /\ RequiredString(d.messageId)
    /\ RequiredString(d.wa_id)
    /\ RequiredString(d.fromNumber)
    /\ RequiredString(d.toNumber)
    /\ d.timestamp # NaN
    /\ d.status \in Statuses

Validate(d) ==
    /\ RequiredString(d.messageId)
    /\ RequiredString(d.wa_id)
    /\ RequiredString(d.fromNumber)
    /\ RequiredString(d.toNumber)
    /\ d.messageType \in MessageTypes
    /\ d.timestamp # NaN
    /\ d.status \in Statuses

\* (variant: the collection has no unique index)
UniqueOff(s, d) == TRUE

\* the unique index on messageId
UniqueOk(s, d) == \A i \in 1..Len(s) : s[i].messageId # d.messageId

\* the document as stored: the cast fields plus the audit timestamp updatedAt
\* (createdAt, written once and never read, is left out)
Stored(d, now) ==
    [messageId |-> d.messageId, wa_id |-> d.wa_id, text |-> d.text,
     messageType |-> d.messageType, fromNumber |-> d.fromNumber,
     toNumber |-> d.toNumber, contactName |-> d.contactName,
     timestamp |-> d.timestamp[1], isOutgoing |-> d.isOutgoing,
     status |-> d.status, updatedAt |-> now]

\* new Message(d).save(): "ok", or the error it throws
SaveError(s, d) ==
    IF ~Validate(d) THEN "ValidationError"
    ELSE IF ~UniqueOk(s, d) THEN "E11000"
    ELSE "ok"

\* (variant: the write is an upsert keyed by messageId)
SaveStoreUpsert(s, d, now) ==
    IF ~Validate(d) THEN s
    ELSE IF UniqueOk(s, d) THEN Append(s, Stored(d, now))
    ELSE [i \in 1..Len(s) |->
            IF s[i].messageId = d.messageId THEN Stored(d, now) ELSE s[i]]

\* (variant: the collection is capped, an insert into a full one drops the
\* oldest document)
SaveStoreCapped(s, d, now) ==
    IF SaveError(s, d) # "ok" THEN s
    ELSE IF Len(s) >= 2 THEN Append(Tail(s), Stored(d, now))
    ELSE Append(s, Stored(d, now))

SaveStore(s, d, now) ==
    IF SaveError(s, d) = "ok" THEN Append(s, Stored(d, now)) ELSE s

\* (variant: the lookup before the save finds nothing)
ExistsOff(s, id) == FALSE

\* Message.findOne({messageId}) !== null
Exists(s, id) == \E i \in 1..Len(s) : s[i].messageId = id

\* Message.updateOne({messageId}, {status, updatedAt}): the first match is
\* updated, no validator runs
FirstMatch(s, id) ==
    IF Exists(s, id)
    THEN CHOOSE i \in 1..Len(s) :
            /\ s[i].messageId = id
            /\ \A j \in 1..(i - 1) : s[j].messageId # id
    ELSE 0

UpdateOne(s, id, status, now) ==
    LET i == FirstMatch(s, id) IN
    IF i = 0 THEN s
    ELSE [s EXCEPT ![i] = [@ EXCEPT !.status = status, !.updatedAt = now]]

(***************************************************************************)
(* processWebhooks.js: pure helpers.                                       *)
(***************************************************************************)
\* contacts.find(c => c.wa_id === fromNumber): the index of the first match, 0
\* when there is none; reading c.wa_id of a null element throws
FindContact(fromNumber, contacts) ==
    LET hits == {i \in 1..Len(contacts) :
                    ~IsNullContact(contacts[i]) /\ contacts[i].wa_id = fromNumber}
    IN IF hits = {} THEN 0 ELSE CHOOSE i \in hits : \A j \in hits : i <= j

FindThrows(fromNumber, contacts) ==
    \E i \in 1..Len(contacts) :
        /\ IsNullContact(contacts[i])
        /\ FindContact(fromNumber, contacts) \notin 1..i

\* (variant: without the fallback to the first contact)
getContactInfoFromWebhookExact(fromNumber, contacts) ==
    LET k == FindContact(fromNumber, contacts) IN
    IF k = 0 THEN [waId |-> fromNumber, name |-> "Unknown"]
    ELSE [waId |-> contacts[k].wa_id, name |-> OrElse(contacts[k].name, "Unknown")]

\* defined when the find does not throw
getContactInfoFromWebhook(fromNumber, contacts) ==
    IF contacts = <<>> THEN [waId |-> fromNumber, name |-> "Unknown"]
    ELSE LET k == FindContact(fromNumber, contacts)
             contact == IF k # 0 THEN contacts[k] ELSE contacts[1]
         IN [waId |-> contact.wa_id, name |-> OrElse(contact.name, "Unknown")]

\* (variant: the recipient of an outbound message is not looked up)
createMessageFromWebhookNoRecipient(message, contacts, businessNumber) ==
    IF IsNullEntry(message) THEN <<>>
    ELSE LET outgoing == Truthy(businessNumber) /\ message.from = businessNumber
         IN IF outgoing /\ contacts # <<>> /\ IsNullContact(contacts[1]) THEN <<>>
            ELSE IF ~outgoing /\ FindThrows(message.from, contacts) THEN <<>>
            ELSE LET info == getContactInfoFromWebhook(message.from, contacts)
                 IN <<[messageId |-> message.id,
                       wa_id |-> IF outgoing THEN "business" ELSE info.waId,
                       text |-> message.text,
                       messageType |-> OrElse(message.type, "text"),
                       fromNumber |-> message.from,
                       toNumber |-> IF outgoing THEN Null ELSE businessNumber,
                       contactName |-> IF outgoing THEN "You" ELSE info.name,
                       timestamp |-> Times(ParseInt(message.timestamp), 1000),
                       isOutgoing |-> outgoing,
                       status |-> IF outgoing THEN "sent" ELSE "received"]>>

\* (variant: the status is left to the schema's default)
createMessageFromWebhookDefaultStatus(message, contacts, businessNumber) ==
    IF IsNullEntry(message) THEN <<>>
    ELSE LET outgoing == Truthy(businessNumber) /\ message.from = businessNumber
         IN IF outgoing /\ contacts # <<>> /\ IsNullContact(contacts[1]) THEN <<>>
            ELSE IF ~outgoing /\ FindThrows(message.from, contacts) THEN <<>>
            ELSE LET info == getContactInfoFromWebhook(message.from, contacts)
                 IN <<[messageId |-> message.id,
                       wa_id |-> IF outgoing THEN "business" ELSE info.waId,
                       text |-> message.text,
                       messageType |-> OrElse(message.type, "text"),
                       fromNumber |-> message.from,
                       toNumber |-> IF outgoing
                                    THEN (IF contacts # <<>> THEN contacts[1].wa_id
                                          ELSE Null)
                                    ELSE businessNumber,
                       contactName |-> IF outgoing THEN "You" ELSE info.name,
                       timestamp |-> Times(ParseInt(message.timestamp), 1000),
                       isOutgoing |-> outgoing,
                       status |-> "received"]>>

\* <<>> when the function returns null (its catch), else <<messageData>>
createMessageFromWebhook(message, contacts, businessNumber) ==
    IF IsNullEntry(message) THEN <<>>
    ELSE LET outgoing == Truthy(businessNumber) /\ message.from = businessNumber
         IN IF outgoing /\ contacts # <<>> /\ IsNullContact(contacts[1]) THEN <<>>
            ELSE IF ~outgoing /\ FindThrows(message.from, contacts) THEN <<>>
            ELSE LET info == getContactInfoFromWebhook(message.from, contacts)
                 IN <<[messageId |-> message.id,
                       wa_id |-> IF outgoing THEN "business" ELSE info.waId,
                       text |-> message.text,
                       messageType |-> OrElse(message.type, "text"),
                       fromNumber |-> message.from,
                       toNumber |-> IF outgoing
                                    THEN (IF contacts # <<>> THEN contacts[1].wa_id
                                          ELSE Null)
                                    ELSE businessNumber,
                       contactName |-> IF outgoing THEN "You" ELSE info.name,
                       timestamp |-> Times(ParseInt(message.timestamp), 1000),
                       isOutgoing |-> outgoing,
                       status |-> IF outgoing THEN "sent" ELSE "received"]>>

\* extractWebhookData: the business number of the batch
businessNumberOf(display, e) == OrElse(display, e)

(***************************************************************************)
(* Ingestion runs.                                                         *)
(***************************************************************************)
NoData == [messageId |-> Null]

IdleRun ==
    [pc |-> "idle", businessNumber |-> Null, contacts |-> <<>>,
     nMsgs |-> 0, nSts |-> 0, cur |-> NoData]

\* entries of the files in progress that are still to be read
RECURSIVE PendingOf(_)
PendingOf(rs) ==
    IF rs = {} THEN 0
    ELSE LET r == CHOOSE x \in rs : TRUE
         IN runs[r].nMsgs + runs[r].nSts + PendingOf(rs \ {r})
Pending == PendingOf(Runs)

\* where processWebhookFile stands with nm messages and ns statuses left
PcOf(nm, ns) == IF nm > 0 THEN "msgs" ELSE IF ns > 0 THEN "sts" ELSE "idle"

Line(m, id) == [msg |-> m, id |-> id]


(***************************************************************************)
(* processWebhooks.js: the steps of one ingestion run r.                   *)
(***************************************************************************)
\* (variant: the result of extractWebhookData is used unchecked, a document
\* without the nested path throws into the catch like a parse error)
processWebhookFileNoCheck(r, f) ==
    /\ runs[r].pc = "idle"
    /\ IF f.kind = "ok"
       THEN /\ runs' = [runs EXCEPT ![r] =
                          [pc |-> PcOf(f.nMsgs, f.nSts),
                           businessNumber |-> businessNumberOf(f.display, env),
                           contacts |-> f.contacts,
                           nMsgs |-> f.nMsgs, nSts |-> f.nSts, cur |-> NoData]]
            /\ log' = Line("processing", Null)
       ELSE /\ runs' = [runs EXCEPT ![r].cur = NoData]
            /\ log' = Line("errorFile", Null)
    /\ UNCHANGED <<store, clock, env, resp>>

\* a webhook document as parsed: metaData.entry, an array of entries with an
\* array changes each, whose elements carry a value or none.  The value is
\* what the run reads of it; the file without the nested path stands for a
\* null result.
NoPath ==
    [kind |-> "nopath", display |-> Null, contacts |-> <<>>, nMsgs |-> 0, nSts |-> 0]

\* (variant: the last entry and its last change are taken)
extractWebhookDataLast(doc) ==
    IF doc.entry = <<>> THEN NoPath
    ELSE LET changes == doc.entry[Len(doc.entry)].changes
         IN IF changes = <<>> THEN NoPath
            ELSE IF IsNullEntry(changes[Len(changes)].value) THEN NoPath
            ELSE changes[Len(changes)].value

\* extractWebhookData: metaData?.entry?.[0], then changes?.[0]?.value
extractWebhookData(doc) ==
    IF doc.entry = <<>> THEN NoPath
    ELSE LET changes == doc.entry[1].changes
         IN IF changes = <<>> THEN NoPath
            ELSE IF IsNullEntry(changes[1].value) THEN NoPath
            ELSE changes[1].value

\* processWebhookFile up to its first await: read, parse, extractWebhookData
processWebhookFile(r, f) ==
    /\ runs[r].pc = "idle"
    /\ IF f.kind = "ok"
       THEN /\ runs' = [runs EXCEPT ![r] =
                          [pc |-> PcOf(f.nMsgs, f.nSts),
                           businessNumber |-> businessNumberOf(f.display, env),
                           contacts |-> f.contacts,
                           nMsgs |-> f.nMsgs, nSts |-> f.nSts, cur |-> NoData]]
            /\ log' = Line("processing", Null)
       ELSE /\ runs' = [runs EXCEPT ![r].cur = NoData]
            /\ log' = Line(IF f.kind = "badjson" THEN "errorFile"
                           ELSE "invalidStructure", Null)
    /\ UNCHANGED <<store, clock, env, resp>>

\* processMessages: the next entry, through createMessageFromWebhook and the
\* findOne of saveMessage; cur is the messageData built last
processMessages(r, e) ==
    /\ runs[r].pc = "msgs"
    /\ LET md == createMessageFromWebhook(e, runs[r].contacts, runs[r].businessNumber)
           left == runs[r].nMsgs - 1
       IN IF md = <<>>
          THEN /\ runs' = [runs EXCEPT ![r].nMsgs = left,
                                       ![r].pc = PcOf(left, runs[r].nSts),
                                       ![r].cur = NoData]
               /\ log' = Line("errorCreating", Null)
          ELSE IF Exists(store, md[1].messageId)
          THEN /\ runs' = [runs EXCEPT ![r].nMsgs = left,
                                       ![r].pc = PcOf(left, runs[r].nSts),
                                       ![r].cur = md[1]]
               /\ log' = Line("exists", md[1].messageId)
          ELSE /\ runs' = [runs EXCEPT ![r].pc = "save", ![r].cur = md[1]]
               /\ log' = log
    /\ UNCHANGED <<store, clock, env, resp>>

\* saveMessage after its findOne found nothing: new Message(data).save(),
\* whose error is caught and logged
saveMessage(r) ==
    /\ runs[r].pc = "save"
    /\ LET d == runs[r].cur
           left == runs[r].nMsgs - 1
       IN /\ store' = SaveStore(store, d, clock)
          /\ log' = Line(IF SaveError(store, d) = "ok" THEN "saved"
                         ELSE SaveError(store, d), d.messageId)
          /\ runs' = [runs EXCEPT ![r].nMsgs = left,
                                  ![r].pc = PcOf(left, runs[r].nSts)]
    /\ UNCHANGED <<clock, env, resp>>

\* (variant: the filter is dropped, every document is updated)
updateMessageStatusAll(s, messageId, status, now) ==
    [i \in 1..Len(s) |-> [s[i] EXCEPT !.status = status, !.updatedAt = now]]

\* (variant: updateOne with upsert, a missing document is created)
updateMessageStatusUpsert(s, messageId, status, now) ==
    IF Exists(s, messageId) THEN UpdateOne(s, messageId, status, now)
    ELSE Append(s, [messageId |-> messageId, status |-> status, updatedAt |-> now])

\* (variant: a message that was read keeps that status)
updateMessageStatusKeepRead(s, messageId, status, now) ==
    LET i == FirstMatch(s, messageId) IN
    IF i = 0 \/ s[i].status = "read" THEN s
    ELSE [s EXCEPT ![i] = [@ EXCEPT !.status = status, !.updatedAt = now]]

\* updateMessageStatus(messageId, status)
updateMessageStatus(s, messageId, status, now) == UpdateOne(s, messageId, status, now)

\* (variant: the target is meta_msg_id, the id only when that is missing)
processStatusUpdatesMetaFirst(r, se) ==
    /\ runs[r].pc = "sts"
    /\ IF IsNullEntry(se)
       THEN /\ runs' = [runs EXCEPT ![r].nSts = 0, ![r].pc = "idle"]
            /\ log' = Line("errorFile", Null)
            /\ store' = store
       ELSE LET messageId == OrElse(se.meta_msg_id, se.id)
                left == runs[r].nSts - 1
            IN /\ runs' = [runs EXCEPT ![r].nSts = left, ![r].pc = PcOf(0, left)]
               /\ IF Truthy(messageId)
                  THEN /\ store' = updateMessageStatus(store, messageId, se.status, clock)
                       /\ log' = Line(IF store' # store THEN "updated" ELSE "notFound",
                                      messageId)
                  ELSE /\ store' = store
                       /\ log' = log
    /\ UNCHANGED <<clock, env, resp>>

\* processStatusUpdates: the next status entry; a null entry throws out of the
\* loop into the catch of processWebhookFile
processStatusUpdates(r, se) ==
    /\ runs[r].pc = "sts"
    /\ IF IsNullEntry(se)
       THEN /\ runs' = [runs EXCEPT ![r].nSts = 0, ![r].pc = "idle"]
            /\ log' = Line("errorFile", Null)
            /\ store' = store
       ELSE LET messageId == OrElse(se.id, se.meta_msg_id)
                left == runs[r].nSts - 1
            IN /\ runs' = [runs EXCEPT ![r].nSts = left, ![r].pc = PcOf(0, left)]
               /\ IF Truthy(messageId)
                  THEN /\ store' = updateMessageStatus(store, messageId, se.status, clock)
                       /\ log' = Line(IF store' # store THEN "updated" ELSE "notFound",
                                      messageId)
                  ELSE /\ store' = store
                       /\ log' = log
    /\ UNCHANGED <<clock, env, resp>>

(***************************************************************************)
(* processWebhooks.js: the same steps while the store cannot be reached.   *)
(* Every call on the Message model throws; saveMessage and                 *)
(* updateMessageStatus catch what their calls throw.                       *)
(***************************************************************************)
\* processMessages: the next entry; the findOne of saveMessage throws into
\* its catch, saveMessage returns false and the loop goes on
processMessagesDown(r, e) ==
    /\ runs[r].pc = "msgs"
    /\ LET md == createMessageFromWebhook(e, runs[r].contacts, runs[r].businessNumber)
           left == runs[r].nMsgs - 1
       IN /\ runs' = [runs EXCEPT ![r].nMsgs = left,
                                  ![r].pc = PcOf(left, runs[r].nSts),
                                  ![r].cur = IF md = <<>> THEN NoData ELSE md[1]]
          /\ log' = Line(IF md = <<>> THEN "errorCreating" ELSE "errorSaving", Null)
    /\ UNCHANGED <<store, clock, env, resp>>

\* saveMessage after its findOne found nothing: save() throws into the catch
saveMessageDown(r) ==
    /\ runs[r].pc = "save"
    /\ LET d == runs[r].cur
           left == runs[r].nMsgs - 1
       IN /\ log' = IF Validate(d) THEN Line("errorSaving", Null)
                    ELSE Line("ValidationError", d.messageId)
          /\ runs' = [runs EXCEPT ![r].nMsgs = left,
                                  ![r].pc = PcOf(left, runs[r].nSts)]
    /\ UNCHANGED <<store, clock, env, resp>>

\* processStatusUpdates: the next status entry; the updateOne of
\* updateMessageStatus throws into its catch and the loop goes on
processStatusUpdatesDown(r, se) ==
    /\ runs[r].pc = "sts"
    /\ IF IsNullEntry(se)
       THEN /\ runs' = [runs EXCEPT ![r].nSts = 0, ![r].pc = "idle"]
            /\ log' = Line("errorFile", Null)
       ELSE LET messageId == OrElse(se.id, se.meta_msg_id)
                left == runs[r].nSts - 1
            IN /\ runs' = [runs EXCEPT ![r].nSts = left, ![r].pc = PcOf(0, left)]
               /\ log' = IF Truthy(messageId) THEN Line("errorUpdating", Null) ELSE log
    /\ UNCHANGED <<store, clock, env, resp>>

\* processAllWebhookFiles after its last file: "Processing completed!" and
\* process.exit(0)
processAllWebhookFilesEnd(r) ==
    /\ runs[r].pc = "idle"
    /\ runs' = [runs EXCEPT ![r].pc = "done"]
    /\ log' = Line("completed", Null)
    /\ UNCHANGED <<store, clock, env, resp>>

(***************************************************************************)
(* controllers/messageController.js: sendMessage.                          *)
(***************************************************************************)
\* (variant: the text is not trimmed before it is tested)
validateMessageInputNoTrim(text, waId) ==
    IF text = <<>> THEN "Message text is required"
    ELSE IF ~Truthy(waId) THEN "wa_id is required"
    ELSE "valid"

\* a missing text and the empty text are both <<>>
validateMessageInput(text, waId) ==
    IF Trim(text) = <<>> THEN "Message text is required"
    ELSE IF ~Truthy(waId) THEN "wa_id is required"
    ELSE "valid"

generatedId(now, rnd) == "msg_" \o ToString(now) \o "_" \o ToString(rnd)

\* (variant: the text is stored as typed)
createOutgoingMessageUntrimmed(waId, text, businessPhone, now, rnd) ==
    [messageId |-> generatedId(now, rnd),
     wa_id |-> "business",
     text |-> text,
     messageType |-> "text",
     fromNumber |-> businessPhone,
     toNumber |-> waId,
     contactName |-> "You",
     timestamp |-> Num(now),
     isOutgoing |-> TRUE,
     status |-> "sent"]

\* (variant: the composed record is keyed by the contact)
createOutgoingMessageByContact(waId, text, businessPhone, now, rnd) ==
    [messageId |-> generatedId(now, rnd),
     wa_id |-> waId,
     text |-> Trim(text),
     messageType |-> "text",
     fromNumber |-> businessPhone,
     toNumber |-> waId,
     contactName |-> "You",
     timestamp |-> Num(now),
     isOutgoing |-> TRUE,
     status |-> "sent"]

createOutgoingMessage(waId, text, businessPhone, now, rnd) ==
    [messageId |-> generatedId(now, rnd),
     wa_id |-> "business",
     text |-> Trim(text),
     messageType |-> "text",
     fromNumber |-> businessPhone,
     toNumber |-> waId,
     contactName |-> "You",
     timestamp |-> Num(now),
     isOutgoing |-> TRUE,
     status |-> "sent"]

NoResp == [status |-> 0, success |-> FALSE, error |-> Null, message |-> NoData]
Reply(st, ok, err, m) == [status |-> st, success |-> ok, error |-> err, message |-> m]

sendMessage(waId, text, rnd) ==
    /\ LET v == validateMessageInput(text, waId)
           d == createOutgoingMessage(waId, text, OrElse(env, DefaultBusinessPhone),
                                      clock, rnd)
           err == SaveError(store, d)
       IN IF v # "valid"
          THEN /\ resp' = Reply(400, FALSE, v, NoData)
               /\ UNCHANGED <<store, log>>
          ELSE IF err = "ok"
          THEN /\ store' = SaveStore(store, d, clock)
               /\ resp' = Reply(200, TRUE, Null, Stored(d, clock))
               /\ log' = Line("sent", d.messageId)
          ELSE /\ resp' = Reply(400, FALSE,
                                IF err = "E11000"
                                THEN "Message with this ID already exists"
                                ELSE "Validation failed", NoData)
               /\ UNCHANGED <<store, log>>
    /\ UNCHANGED <<clock, env, runs>>

\* time passes
tick ==
    /\ clock' = clock + 1
    /\ UNCHANGED <<store, env, runs, log, resp>>

(***************************************************************************)
(* The environment: every input read counts against MaxOps; a file is      *)
(* started only if the budget covers all its entries.                      *)
(***************************************************************************)
Consume(n) == ops + n + Pending <= MaxOps /\ ops' = ops + 1

NoFile == [h |-> [kind |-> "none"], msgs |-> <<>>, sts |-> <<>>]

InitRest ==
    /\ clock = StartTime
    /\ env \in {Null, BUSINESS}
    /\ runs = [r \in Runs |-> IdleRun]
    /\ log = Line("start", Null)
    /\ resp = NoResp
    /\ ops = 0

InitProg == store = <<>> /\ InitRest

NoSnap == [init |-> <<>>, first |-> <<>>]

(***************************************************************************)
(* The frontend (App.jsx, ChatWindow.jsx) as it stands once the            *)
(* conversation list has been loaded.  A conversation carries the fields    *)
(* the chat window reads; no chat is selected (selectedChat is null).       *)
(* ChatWindow state starts from its useState values at every mount.         *)
(***************************************************************************)
NoChat == [wa_id |-> Null, phoneNumber |-> Null]

FreshWindow ==
    [messages |-> <<>>, loading |-> TRUE, error |-> Null,
     newMessage |-> <<>>, sending |-> FALSE]

InitialUi ==
    [selected |-> NoChat,
     messages |-> FreshWindow.messages,
     loading |-> FreshWindow.loading,
     error |-> FreshWindow.error,
     newMessage |-> FreshWindow.newMessage,
     sending |-> FreshWindow.sending,
     conversations |->
        <<[wa_id |-> CAROL, phoneNumber |-> CAROL,
           lastMessage |-> TxtYo, lastMessageTime |-> StartTime + 2],
          [wa_id |-> ALICE, phoneNumber |-> ALICE,
           lastMessage |-> TxtHi, lastMessageTime |-> StartTime]>>,
     reqs |-> {},
     \* what the api service answered last; none before any answer
     reply |-> [kind |-> "none", success |-> FALSE, message |-> NullEntry]]

InitHist ==
    /\ file = NoFile /\ pass = 0 /\ snap = NoSnap /\ up = TRUE /\ lost = {}
    /\ ui = InitialUi

SendTargets == {ALICE, Null}
SendTexts == {TxtPadded, TxtBlank, TxtEmpty}

(***************************************************************************)
(* Spec: one ingestion run (processAllWebhookFiles, file after file)       *)
(* beside the message API.                                                 *)
(***************************************************************************)
Init == InitProg /\ InitHist

StartFile ==
    /\ runs[1].pc = "idle"
    /\ \E f \in Files :
          Consume(1 + f.nMsgs + f.nSts) /\ processWebhookFile(1, f) /\ UNCHANGED hist
Message ==
    /\ runs[1].pc = "msgs"
    /\ \E e \in MsgEntries : processMessages(1, e) /\ ops' = ops + 1 /\ UNCHANGED hist
Save == saveMessage(1) /\ UNCHANGED <<ops, file, pass, snap, up, lost, ui>>
Status ==
    /\ runs[1].pc = "sts"
    /\ \E se \in StatusEntries :
          processStatusUpdates(1, se) /\ ops' = ops + 1 /\ UNCHANGED hist
Send ==
    \E w \in SendTargets, t \in SendTexts, k \in 1..MaxRand :
        Consume(1) /\ sendMessage(w, t, k) /\ UNCHANGED hist
Tick == Consume(1) /\ tick /\ UNCHANGED hist

Next == StartFile \/ Message \/ Save \/ Status \/ Send \/ Tick

Spec == Init /\ [][Next]_vars

(***************************************************************************)
(* SpecRace: two ingestion runs (two processes running processWebhooks.js, *)
(* or a run beside a redelivery) interleaved at every store call, beside   *)
(* the message API.                                                        *)
(***************************************************************************)
\* the inputs of the racing runs: well-formed files of one business number,
\* entries that reach the store, status entries aimed at the contended id
RaceFiles == {f \in Files : f.kind = "ok" /\ f.display = BUSINESS}
RaceEntries == MsgEntries \ {NullEntry}
RaceStatuses == {se \in StatusEntries \ {NullEntry} : se.id = "m1"}

RaceStartFile ==
    \E r \in Runs :
        /\ runs[r].pc = "idle"
        /\ \E f \in RaceFiles :
              Consume(1 + f.nMsgs + f.nSts) /\ processWebhookFile(r, f) /\ UNCHANGED hist
RaceMessage ==
    \E r \in Runs :
        /\ runs[r].pc = "msgs"
        /\ \E e \in RaceEntries :
              processMessages(r, e) /\ ops' = ops + 1 /\ UNCHANGED hist
RaceSave == \E r \in Runs : saveMessage(r) /\ UNCHANGED <<ops, file, pass, snap, up, lost, ui>>
RaceStatus ==
    \E r \in Runs :
        /\ runs[r].pc = "sts"
        /\ \E se \in RaceStatuses :
              processStatusUpdates(r, se) /\ ops' = ops + 1 /\ UNCHANGED hist

NextRace == RaceStartFile \/ RaceMessage \/ RaceSave \/ RaceStatus \/ Send \/ Tick

\* the racing files carry their business number, so the environment's is unset
InitRace == Init /\ env = Null

SpecRace == InitRace /\ [][NextRace]_vars

(***************************************************************************)
(* SpecFn: createMessageFromWebhook over a wide range of entries, contact  *)
(* lists and business numbers: files of one message entry each, read by    *)
(* one run.                                                                *)
(***************************************************************************)
BOB == "+3333"

FnContactLists ==
    ContactLists
    \cup {<<Contact(ALICE, "Alice"), Contact(ALICE, "Al"), NullContact>>,
          <<Contact(Null, "Ghost")>>,
          <<Contact(CAROL, "")>>,
          <<NullContact>>}

FnEntries ==
    [id : {"m1"}, from : {ALICE, CAROL, BOB, BUSINESS, Null}, type : {"text", Null},
     text : {TxtHi, TxtEmpty},
     timestamp : {TsOne, TsTwo, TsNegative, TsWord, TsMixed, TsMissing, TsThousand}]
    \cup {NullEntry}

FnFiles ==
    [kind : {"ok"}, display : {BUSINESS, Null}, contacts : FnContactLists,
     nMsgs : {1}, nSts : {0}]

FnStartFile ==
    /\ runs[1].pc = "idle"
    /\ \E f \in FnFiles :
          Consume(1 + f.nMsgs + f.nSts) /\ processWebhookFile(1, f) /\ UNCHANGED hist
FnMessage ==
    /\ runs[1].pc = "msgs"
    /\ \E e \in FnEntries : processMessages(1, e) /\ ops' = ops + 1 /\ UNCHANGED hist

NextFn == FnStartFile \/ FnMessage \/ Save

SpecFn == Init /\ [][NextFn]_vars

(***************************************************************************)
(* SpecIdem: processWebhookFile run twice in sequence on one file.  The    *)
(* first reading draws the entries and records them in file; the second    *)
(* reads them back.  The store starts empty or holding one document.       *)
(***************************************************************************)
\* a batch whose messages can be stored: it names its business number and
\* its contacts
IdemFiles ==
    {f \in Files : f.kind # "ok" \/ (f.display = BUSINESS /\ f.contacts # <<>>)}

\* the entries of the model and one whose timestamp is not a number
IdemEntries ==
    MsgEntries
    \cup {Entry(id, [from |-> ALICE, type |-> "text", text |-> TxtHi,
                     timestamp |-> TsWord]) : id \in MsgIds}

\* the store left by an earlier ingestion of m1
SeedStore ==
    LET f == CHOOSE g \in IdemFiles : g.kind = "ok"
        md == createMessageFromWebhook(
                  Entry("m1", [from |-> ALICE, type |-> "text", text |-> TxtYo,
                               timestamp |-> TsTwo]),
                  f.contacts, f.display)
    IN SaveStore(<<>>, md[1], StartTime)

InitIdem ==
    /\ store \in {<<>>, SeedStore}
    /\ InitRest
    /\ env = Null
    /\ file = NoFile /\ pass = 0 /\ up = TRUE /\ lost = {}
    /\ ui = InitialUi
    /\ snap = [init |-> store, first |-> <<>>]

IdemStartFile ==
    /\ pass = 0
    /\ \E f \in IdemFiles :
          /\ Consume(1 + f.nMsgs + f.nSts)
          /\ processWebhookFile(1, f)
          /\ file' = [h |-> f, msgs |-> <<>>, sts |-> <<>>]
    /\ pass' = 1
    /\ UNCHANGED <<snap, up, lost, ui>>

\* the second processWebhookFile, once the first has returned
IdemAgain ==
    /\ pass = 1
    /\ processWebhookFile(1, file.h)
    /\ pass' = 2
    /\ snap' = [snap EXCEPT !.first = store]
    /\ UNCHANGED <<ops, file, up, lost, ui>>

IdemMessage ==
    /\ runs[1].pc = "msgs"
    /\ IF pass = 1
       THEN \E e \in IdemEntries :
               /\ processMessages(1, e)
               /\ ops' = ops + 1
               /\ file' = [file EXCEPT !.msgs = Append(@, e)]
               /\ UNCHANGED <<pass, snap, up, lost, ui>>
       ELSE /\ processMessages(1, file.msgs[file.h.nMsgs - runs[1].nMsgs + 1])
            /\ UNCHANGED <<ops, file, pass, snap, up, lost, ui>>

IdemStatus ==
    /\ runs[1].pc = "sts"
    /\ IF pass = 1
       THEN \E se \in StatusEntries :
               /\ processStatusUpdates(1, se)
               /\ ops' = ops + 1
               /\ file' = [file EXCEPT !.sts = Append(@, se)]
               /\ UNCHANGED <<pass, snap, up, lost, ui>>
       ELSE /\ processStatusUpdates(1, file.sts[file.h.nSts - runs[1].nSts + 1])
            /\ UNCHANGED <<ops, file, pass, snap, up, lost, ui>>

\* time passes, during a reading or between the two
IdemTick ==
    /\ IF pass = 2 THEN ops < MaxOps /\ ops' = ops + 1 ELSE Consume(1)
    /\ tick
    /\ UNCHANGED hist

NextIdem == IdemStartFile \/ IdemAgain \/ IdemMessage \/ Save \/ IdemStatus \/ IdemTick

SpecIdem == InitIdem /\ [][NextIdem]_vars

(***************************************************************************)
(* SpecList: one run over files of several conversations (two senders, the *)
(* business writing to the first contact, a media message without text,    *)
(* entries the schema rejects) beside sends to one of the senders.         *)
(***************************************************************************)
ListFiles ==
    {f \in Files : f.kind = "ok" /\ f.display = BUSINESS /\ f.contacts # <<>>
                   /\ f.nSts = 0}

ListContents ==
    {[from |-> ALICE, type |-> "text", text |-> TxtHi, timestamp |-> TsOne],
     [from |-> ALICE, type |-> "image", text |-> TxtEmpty, timestamp |-> TsTwo],
     [from |-> CAROL, type |-> "text", text |-> TxtYo, timestamp |-> TsOne],
     [from |-> BUSINESS, type |-> "text", text |-> TxtYo, timestamp |-> TsTwo]}

ListIds == {"m1", "m2", "m3"}

\* entries the schema rejects: a type outside the enum, no id, no sender
BadEntries ==
    {[id |-> "m1", from |-> ALICE, type |-> "sticker", text |-> TxtHi,
      timestamp |-> TsOne],
     [id |-> Null, from |-> ALICE, type |-> "text", text |-> TxtHi,
      timestamp |-> TsOne],
     [id |-> "m1", from |-> Null, type |-> "text", text |-> TxtHi,
      timestamp |-> TsOne]}

ListEntries == {Entry(id, c) : id \in ListIds, c \in ListContents} \cup BadEntries

ListStartFile ==
    /\ runs[1].pc = "idle"
    /\ \E f \in ListFiles :
          Consume(1 + f.nMsgs + f.nSts) /\ processWebhookFile(1, f) /\ UNCHANGED hist
ListMessage ==
    /\ runs[1].pc = "msgs"
    /\ \E e \in ListEntries : processMessages(1, e) /\ ops' = ops + 1 /\ UNCHANGED hist
ListSend ==
    \E k \in 1..MaxRand :
        Consume(1) /\ sendMessage(ALICE, TxtPadded, k) /\ UNCHANGED hist

NextList == ListStartFile \/ ListMessage \/ Save \/ ListSend \/ Tick

InitList == Init /\ env = Null

SpecList == InitList /\ [][NextList]_vars

(***************************************************************************)
(* SpecRun: one run of processAllWebhookFiles from its first file to its   *)
(* end; the store may become unreachable at any point and stays so.  lost  *)
(* records the status updates that found no document.                      *)
(***************************************************************************)
RunFiles ==
    {f \in Files : f.kind = "ok" /\ f.display = BUSINESS /\ f.contacts # <<>>}

RunEntries == MsgEntries \ {NullEntry}

\* status entries naming their message by id, by meta_msg_id, by both, by
\* neither
RunStatuses ==
    {[id |-> "m1", meta_msg_id |-> Null, status |-> "read"],
     [id |-> Null, meta_msg_id |-> "m1", status |-> "delivered"],
     [id |-> "m2", meta_msg_id |-> "m1", status |-> "failed"],
     [id |-> Null, meta_msg_id |-> Null, status |-> "read"]}

RunStartFile ==
    /\ runs[1].pc = "idle"
    /\ \E f \in RunFiles :
          Consume(1 + f.nMsgs + f.nSts) /\ processWebhookFile(1, f) /\ UNCHANGED hist
RunMessage ==
    /\ runs[1].pc = "msgs"
    /\ \E e \in RunEntries :
          /\ IF up THEN processMessages(1, e) ELSE processMessagesDown(1, e)
          /\ ops' = ops + 1
          /\ UNCHANGED hist
RunSave ==
    /\ IF up THEN saveMessage(1) ELSE saveMessageDown(1)
    /\ UNCHANGED <<ops, file, pass, snap, up, lost, ui>>
RunStatus ==
    /\ runs[1].pc = "sts"
    /\ \E se \in RunStatuses :
          /\ IF up THEN processStatusUpdates(1, se) ELSE processStatusUpdatesDown(1, se)
          /\ ops' = ops + 1
          /\ lost' = IF /\ up
                        /\ Truthy(OrElse(se.id, se.meta_msg_id))
                        /\ ~Exists(store, OrElse(se.id, se.meta_msg_id))
                     THEN lost \cup {[id |-> OrElse(se.id, se.meta_msg_id),
                                       status |-> se.status]}
                     ELSE lost
          /\ UNCHANGED <<file, pass, snap, up, ui>>
\* the connection to the store is lost
RunFail ==
    /\ up /\ up' = FALSE
    /\ Consume(1)
    /\ UNCHANGED <<prog, file, pass, snap, lost, ui>>
RunEnd ==
    /\ processAllWebhookFilesEnd(1)
    /\ UNCHANGED <<ops, file, pass, snap, up, lost, ui>>

NextRun == RunStartFile \/ RunMessage \/ RunSave \/ RunStatus \/ RunFail \/ RunEnd

InitRun == Init /\ env = Null

SpecRun == InitRun /\ [][NextRun]_vars

(***************************************************************************)
(* SpecDoc: one run over documents with up to two entries of up to two     *)
(* changes each.  file records the document read last.                     *)
(***************************************************************************)
\* the values a change may carry: none, a value with one message, a value
\* with one status
DocValues ==
    {NullEntry}
    \cup {f \in Files : /\ f.kind = "ok" /\ f.display = BUSINESS /\ f.contacts # <<>>
                         /\ f.nMsgs + f.nSts = 1}

\* the arrays of at most two elements of S
UpToTwo(S) == {<<>>} \cup {<<a>> : a \in S} \cup {<<a, b>> : a \in S, b \in S}

Docs ==
    [entry : UpToTwo([changes : UpToTwo([value : DocValues])])]

DocStartFile ==
    /\ runs[1].pc = "idle"
    /\ \E doc \in Docs :
          LET f == extractWebhookData(doc)
          IN /\ Consume(1 + f.nMsgs + f.nSts)
             /\ processWebhookFile(1, f)
             /\ file' = [h |-> f, msgs |-> <<>>, sts |-> <<>>, doc |-> doc]
             /\ UNCHANGED <<pass, snap, up, lost, ui>>

NextDoc == DocStartFile \/ Message \/ Save \/ Status

SpecDoc == Init /\ [][NextDoc]_vars

(***************************************************************************)
(* controllers/messageController.js: getMessages, the documents whose      *)
(* wa_id or toNumber is the requested id, oldest first.                    *)
(***************************************************************************)
RECURSIVE InsertByTimestamp(_, _)
InsertByTimestamp(sorted, m) ==
    IF sorted = <<>> THEN <<m>>
    ELSE IF Head(sorted).timestamp <= m.timestamp
    THEN <<Head(sorted)>> \o InsertByTimestamp(Tail(sorted), m)
    ELSE <<m>> \o sorted

RECURSIVE SortByTimestamp(_)
SortByTimestamp(s) ==
    IF s = <<>> THEN <<>>
    ELSE InsertByTimestamp(SortByTimestamp(SubSeq(s, 1, Len(s) - 1)), s[Len(s)])

InConversation(m, waId) == m.wa_id = waId \/ m.toNumber = waId

\* (variant: the sort is dropped, the documents come in insertion order)
getMessagesUnsorted(s, waId) == SelectSeq(s, LAMBDA m : InConversation(m, waId))

\* (variant: the filter is the wa_id alone)
getMessagesByWaId(s, waId) == SortByTimestamp(SelectSeq(s, LAMBDA m : m.wa_id = waId))

getMessages(s, waId) == SortByTimestamp(SelectSeq(s, LAMBDA m : InConversation(m, waId)))

\* what the handler answers: 400 without a wa_id, else the documents found
getMessagesReply(s, waId) ==
    IF ~Truthy(waId)
    THEN [status |-> 400, success |-> FALSE, messages |-> <<>>]
    ELSE [status |-> 200, success |-> TRUE, messages |-> getMessages(s, waId)]

(***************************************************************************)
(* controllers/messageController.js: getConversations.  The order in which *)
(* distinct returns the ids, and the document a findOne returns among      *)
(* several that fit, are not fixed by the store: every outcome is kept, so  *)
(* getConversations is the set of lists the handler can answer with.        *)
(***************************************************************************)
\* (variant: the ids are collected over all documents and both id fields)
senderIdsAll(s) ==
    {s[i].wa_id : i \in 1..Len(s)} \cup {s[i].toNumber : i \in 1..Len(s)}

\* Message.distinct('wa_id', {isOutgoing: false})
senderIds(s) == {s[i].wa_id : i \in {j \in 1..Len(s) : ~s[j].isOutgoing}}

\* (variant: the sort of the last message is ascending)
lastMessagesOldest(s, waId) ==
    {i \in 1..Len(s) :
        /\ InConversation(s[i], waId)
        /\ \A j \in 1..Len(s) :
              InConversation(s[j], waId) => s[j].timestamp >= s[i].timestamp}

\* findOne({$or: [{wa_id}, {toNumber}]}).sort({timestamp: -1}): the documents
\* it can return
lastMessages(s, waId) ==
    {i \in 1..Len(s) :
        /\ InConversation(s[i], waId)
        /\ \A j \in 1..Len(s) :
              InConversation(s[j], waId) => s[j].timestamp <= s[i].timestamp}

\* findOne({wa_id, isOutgoing: false}): the documents it can return
contactInfos(s, waId) == {i \in 1..Len(s) : s[i].wa_id = waId /\ ~s[i].isOutgoing}

NoMessage == <<"N", "o", " ", "m", "e", "s", "s", "a", "g", "e">>

\* (variant: the last message is looked up by wa_id alone)
buildConversationSummaryByWaId(s, waId) ==
    {[wa_id |-> waId,
      phoneNumber |-> IF c = 0 THEN waId ELSE OrElse(s[c].fromNumber, waId),
      contactName |-> IF c = 0 THEN "Unknown" ELSE OrElse(s[c].contactName, "Unknown"),
      lastMessage |-> IF s[l].text = <<>> THEN NoMessage ELSE s[l].text,
      lastMessageTime |-> s[l].timestamp,
      isLastOutgoing |-> s[l].isOutgoing] :
        l \in {i \in 1..Len(s) :
                 /\ s[i].wa_id = waId
                 /\ \A j \in 1..Len(s) :
                       s[j].wa_id = waId => s[j].timestamp <= s[i].timestamp},
        c \in IF contactInfos(s, waId) = {} THEN {0} ELSE contactInfos(s, waId)}

\* the summaries buildConversationSummary can return for waId; none when no
\* document is in the conversation
buildConversationSummary(s, waId) ==
    {[wa_id |-> waId,
      phoneNumber |-> IF c = 0 THEN waId ELSE OrElse(s[c].fromNumber, waId),
      contactName |-> IF c = 0 THEN "Unknown" ELSE OrElse(s[c].contactName, "Unknown"),
      lastMessage |-> IF s[l].text = <<>> THEN NoMessage ELSE s[l].text,
      lastMessageTime |-> s[l].timestamp,
      isLastOutgoing |-> s[l].isOutgoing] :
        l \in lastMessages(s, waId),
        c \in IF contactInfos(s, waId) = {} THEN {0} ELSE contactInfos(s, waId)}

\* conversations.sort((a, b) => b.lastMessageTime - a.lastMessageTime), stable
RECURSIVE InsertByLastTime(_, _)
InsertByLastTime(sorted, c) ==
    IF sorted = <<>> THEN <<c>>
    ELSE IF Head(sorted).lastMessageTime >= c.lastMessageTime
    THEN <<Head(sorted)>> \o InsertByLastTime(Tail(sorted), c)
    ELSE <<c>> \o sorted

\* (variant: the list is answered in the order it was pushed)
SortByLastTimeOff(q) == q

RECURSIVE SortByLastTime(_)
SortByLastTime(q) ==
    IF q = <<>> THEN <<>>
    ELSE InsertByLastTime(SortByLastTime(SubSeq(q, 1, Len(q) - 1)), q[Len(q)])

\* the lists the loop over the ids can push, the ids taken in any order
RECURSIVE pushed(_, _)
pushed(s, ids) ==
    IF ids = {} THEN {<<>>}
    ELSE UNION {{<<c>> \o rest : c \in buildConversationSummary(s, w),
                                 rest \in pushed(s, ids \ {w})}
                \cup (IF buildConversationSummary(s, w) = {}
                      THEN pushed(s, ids \ {w}) ELSE {}) : w \in ids}

getConversations(s) == {SortByLastTime(q) : q \in pushed(s, senderIds(s))}

(***************************************************************************)
(* controllers/messageController.js: getHealth.                            *)
(***************************************************************************)
\* (variant: the distinct runs over all documents)
getHealthAllSenders(s) ==
    [status |-> 200, success |-> TRUE, health |-> "OK",
     totalMessages |-> Len(s),
     totalConversations |-> Cardinality({s[i].wa_id : i \in 1..Len(s)})]

\* what the handler answers when the store does not change between its
\* countDocuments and its distinct
getHealth(s) ==
    [status |-> 200, success |-> TRUE, health |-> "OK",
     totalMessages |-> Len(s),
     totalConversations |->
         Cardinality({s[i].wa_id : i \in {j \in 1..Len(s) : ~s[j].isOutgoing}})]

(***************************************************************************)
(* The read handlers as steps: each answers from the store and writes      *)
(* nothing.  getHealth awaits twice, the count is taken first.             *)
(***************************************************************************)
getMessagesStep(waId) ==
    /\ resp' = getMessagesReply(store, waId)
    /\ UNCHANGED <<store, clock, env, runs, log>>

getConversationsStep ==
    /\ \E L \in getConversations(store) :
          resp' = [status |-> 200, success |-> TRUE, conversations |-> L]
    /\ UNCHANGED <<store, clock, env, runs, log>>

\* await Message.countDocuments()
getHealthCount ==
    /\ resp' = [health |-> "counting", totalMessages |-> Len(store)]
    /\ UNCHANGED <<store, clock, env, runs, log>>

\* await Message.distinct('wa_id', {isOutgoing: false}), then res.json
getHealthDistinct ==
    /\ "health" \in DOMAIN resp /\ resp.health = "counting"
    /\ resp' = [getHealth(store) EXCEPT !.totalMessages = resp.totalMessages]
    /\ UNCHANGED <<store, clock, env, runs, log>>

(***************************************************************************)
(* SpecApi: Spec with the read handlers of the message API beside it.      *)
(***************************************************************************)
ApiIds == {ALICE, "business", Null}

ApiMessages == \E w \in ApiIds : Consume(1) /\ getMessagesStep(w) /\ UNCHANGED hist
ApiConversations == Consume(1) /\ getConversationsStep /\ UNCHANGED hist
ApiHealthCount == Consume(1) /\ getHealthCount /\ UNCHANGED hist
ApiHealthDistinct ==
    getHealthDistinct /\ UNCHANGED <<ops, file, pass, snap, up, lost, ui>>

NextApi ==
    \/ StartFile \/ Message \/ Save \/ Status \/ Send \/ Tick
    \/ ApiMessages \/ ApiConversations \/ ApiHealthCount \/ ApiHealthDistinct

SpecApi == Init /\ [][NextApi]_vars

(***************************************************************************)
(* Properties.                                                             *)
(***************************************************************************)
UniqueIds(s) == \A i, j \in 1..Len(s) : s[i].messageId = s[j].messageId => i = j

HasId(s, id) == \E i \in 1..Len(s) : s[i].messageId = id

\* every field of a stored document but its status and audit timestamp
Content(m) == [m EXCEPT !.status = "", !.updatedAt = 0]

\* run r takes a step of processMessages or of saveMessage
WriteAttempt(r) == runs[r].pc \in {"msgs", "save"} /\ runs'[r] # runs[r]

\* the number of stored documents with the given messageId
Count(s, id) == Cardinality({i \in 1..Len(s) : s[i].messageId = id})

\* both readings of the file have returned
ReadTwice == pass = 2 /\ runs[1].pc = "idle"

\* the message entries read from the file, and the messageIds they carry
FileEntries == {file.msgs[k] : k \in 1..Len(file.msgs)} \ {NullEntry}
FileIds == {e.id : e \in FileEntries}

\* an entry of the file carries the id and builds a document the schema accepts
Storable(id) ==
    \E e \in FileEntries :
        LET md == createMessageFromWebhook(e, file.h.contacts,
                                           businessNumberOf(file.h.display, env))
        IN e.id = id /\ md # <<>> /\ Validate(md[1])

\* C1 as claimed: after a file has been processed twice in sequence the store
\* holds exactly one document for each messageId of the file, and is the
\* store the first processing left.
C1_Idempotent ==
    ReadTwice =>
        /\ \A id \in FileIds : Count(store, id) = 1
        /\ store = snap.first

\* C1 as amended: after a file has been processed twice in sequence the store
\* holds at most one document for each messageId; exactly one for a messageId
\* of the file that was stored before or that an entry of the file carries in
\* a form the schema accepts, none for its other messageIds; and the store is
\* the store the first processing left in everything but the audit timestamp
\* updatedAt, which each status update of the second processing renews.
C1_IdempotentUpToAudit ==
    ReadTwice =>
        /\ UniqueIds(store)
        /\ \A id \in FileIds :
              Count(store, id) = IF HasId(snap.init, id) \/ Storable(id) THEN 1 ELSE 0
        /\ Len(store) = Len(snap.first)
        /\ \A i \in 1..Len(store) :
              store[i] = [snap.first[i] EXCEPT !.updatedAt = store[i].updatedAt]

\* a file with m1 (already stored, offered with other content), m2 and a
\* status entry for m1 was processed twice, the clock moving in between
C1_Witness ==
    /\ ReadTwice
    /\ snap.init # <<>>
    /\ FileIds = {"m1", "m2"}
    /\ HasId(store, "m2")
    /\ file.sts # <<>>
    /\ store # snap.first

\* C2: under every interleaving of two ingestion runs and of sendMessage
\* requests, no two stored documents share a messageId; a save that meets a
\* document of the same messageId inserts nothing, is logged as an error (not
\* as saved) and its run goes on with the next entry.
C2_AtMostOneInsertPerId ==
    [][/\ UniqueIds(store')
       /\ \A r \in Runs :
            (saveMessage(r) /\ HasId(store, runs[r].cur.messageId)) =>
                /\ store' = store
                /\ log'.msg # "saved" /\ log'.id = runs[r].cur.messageId
                /\ runs'[r].nMsgs = runs[r].nMsgs - 1
                /\ runs'[r].nSts = runs[r].nSts
                /\ runs'[r].pc = (IF runs'[r].nMsgs > 0 THEN "msgs"
                                  ELSE IF runs'[r].nSts > 0 THEN "sts" ELSE "idle")
      ]_vars

\* a run lost the race on m1 (its findOne saw nothing, its save hit the unique
\* index) and still has entries of its file to process
C2_Witness ==
    \E r \in Runs :
        /\ log = Line("E11000", "m1")
        /\ runs[r].cur.messageId = "m1"
        /\ runs[r].pc \in {"msgs", "sts"}
        /\ \E i \in 1..Len(store) :
              store[i].messageId = "m1" /\ store[i].text # runs[r].cur.text

\* C3: once a document with messageId m is stored, no step changes any of its
\* fields other than status and updatedAt, and a later write attempt of an
\* ingestion run (a message entry carrying m again, whatever its content)
\* leaves every stored document as it is.
C3_FirstWriteKept ==
    [][/\ \A i \in 1..Len(store) :
            Len(store') >= i /\ Content(store'[i]) = Content(store[i])
       /\ \A r \in Runs :
            WriteAttempt(r) => SubSeq(store', 1, Len(store)) = store
      ]_vars

\* m1 was offered again with another sender, text and timestamp, and skipped
C3_Witness ==
    \E r \in Runs, i \in 1..Len(store) :
        /\ log.id = "m1" /\ log.msg \in {"exists", "E11000"}
        /\ runs[r].cur.messageId = "m1"
        /\ store[i].messageId = "m1"
        /\ store[i].text # runs[r].cur.text
        /\ store[i].fromNumber # runs[r].cur.fromNumber
        /\ <<store[i].timestamp>> # runs[r].cur.timestamp

ContactIds == {ALICE, CAROL}

C7_StatusUpdateOnlyStatus ==
    [][\A se \in StatusEntries \ {NullEntry} :
          LET m == IF se.id # Null THEN se.id ELSE se.meta_msg_id IN
          (processStatusUpdates(1, se) /\ m # Null /\ HasId(store, m)) =>
              /\ Len(store') = Len(store)
              /\ \A i \in 1..Len(store) :
                    store'[i] = IF store[i].messageId = m
                                THEN [store[i] EXCEPT !.status = se.status,
                                                      !.updatedAt = clock]
                                ELSE store[i]
              /\ \A i \in 1..Len(store) :
                    store[i].messageId = m =>
                        \A c \in {store[i].wa_id, store[i].toNumber} :
                            \E k \in 1..Len(getMessages(store', c)) :
                                /\ getMessages(store', c)[k].messageId = m
                                /\ getMessages(store', c)[k].status = se.status
      ]_vars

\* m1 was marked read after the clock moved, beside another stored document
C7_Witness ==
    /\ log = Line("updated", "m1")
    /\ Len(store) >= 2
    /\ \E i \in 1..Len(store) :
          /\ store[i].messageId = "m1" /\ store[i].status = "read"
          /\ store[i].updatedAt > StartTime

\* C8: a status entry whose messageId matches no stored document leaves the
\* store as it is, is logged as not found (no error is raised) and the run
\* goes on with the next status entry, or with the next file.
C8_UnknownStatusIsNoOp ==
    [][\A se \in StatusEntries \ {NullEntry} :
          LET m == IF se.id # Null THEN se.id ELSE se.meta_msg_id IN
          (processStatusUpdates(1, se) /\ m # Null /\ ~HasId(store, m)) =>
              /\ store' = store
              /\ log' = Line("notFound", m)
              /\ runs'[1].nSts = runs[1].nSts - 1
              /\ runs'[1].pc = (IF runs'[1].nSts > 0 THEN "sts" ELSE "idle")
      ]_vars

\* a status entry for the unknown m2 was dropped while the store held m1 and
\* the file has another status entry to go
C8_Witness ==
    /\ log = Line("notFound", "m2")
    /\ runs[1].pc = "sts"
    /\ HasId(store, "m1") /\ ~HasId(store, "m2")

\* C9: every stored document's status is one of the schema's five values.
C9_StatusInEnum == \A i \in 1..Len(store) : store[i].status \in Statuses

\* C10: every stored document's timestamp is a positive integer.
C10_TimestampPositive == \A i \in 1..Len(store) : store[i].timestamp > 0

\* the message entry last turned into a document by run 1, read back from
\* the document, and the contacts and business number of its batch
Built == runs[1].cur # NoData
Outbound == Truthy(runs[1].businessNumber)
            /\ runs[1].cur.fromNumber = runs[1].businessNumber

Resolved ==
    LET cs == runs[1].contacts
        exact == {i \in 1..Len(cs) :
                    /\ ~IsNullContact(cs[i])
                    /\ cs[i].wa_id = runs[1].cur.fromNumber
                    /\ \A j \in 1..(i - 1) :
                          IsNullContact(cs[j]) \/ cs[j].wa_id # runs[1].cur.fromNumber}
    IN IF exact # {} THEN CHOOSE i \in exact : TRUE
       ELSE IF cs # <<>> THEN 1 ELSE 0

InboundRule ==
    /\ ~runs[1].cur.isOutgoing
    /\ runs[1].cur.toNumber = runs[1].businessNumber
    /\ runs[1].cur.status = "received"
    /\ IF Resolved = 0
       THEN /\ runs[1].cur.wa_id = runs[1].cur.fromNumber
            /\ runs[1].cur.contactName = "Unknown"
       ELSE /\ runs[1].cur.wa_id = runs[1].contacts[Resolved].wa_id
            /\ runs[1].cur.contactName =
                  (IF runs[1].contacts[Resolved].name \in {Null, ""} THEN "Unknown"
                   ELSE runs[1].contacts[Resolved].name)

\* C6 as claimed: an entry whose from is not the business address becomes an
\* inbound document addressed to the business number, whose wa_id is that of
\* the contact matching from, else of the first contact, else from itself,
\* named by the contact's profile name or "Unknown"; its wa_id is never null.
C6_InboundNeverNull ==
    (Built /\ ~Outbound) => (InboundRule /\ runs[1].cur.wa_id # Null)

\* C6 as amended: the same resolution, and the wa_id is null only when the
\* value the resolution takes it from is missing: the entry has no from, or
\* the first contact of the batch carries no wa_id.
C6_InboundResolution ==
    (Built /\ ~Outbound) =>
        /\ InboundRule
        /\ runs[1].cur.wa_id = Null =>
              \/ runs[1].cur.fromNumber = Null
              \/ /\ runs[1].contacts # <<>>
                 /\ ~IsNullContact(runs[1].contacts[1])
                 /\ runs[1].contacts[1].wa_id = Null

\* an entry of Bob, who is not among the contacts, fell back to the first
\* contact, Carol, who has no profile name
C6_Witness ==
    /\ Built /\ ~Outbound
    /\ runs[1].cur.fromNumber = BOB
    /\ runs[1].cur.wa_id = CAROL
    /\ runs[1].cur.contactName = "Unknown"

\* the conversation ids a request of the model can name
QueryIds == {ALICE, CAROL, BOB, "business"}

\* C11: for every conversation id, the list getMessages returns is in
\* non-decreasing order of timestamp: of two documents of the list, the one
\* listed first has the timestamp that is not greater.
C11_MessagesAscending ==
    \A w \in QueryIds :
        LET ms == getMessages(store, w)
        IN \A a, b \in 1..Len(ms) : a < b => ms[a].timestamp <= ms[b].timestamp

\* Alice's conversation holds a document sent from the API before an older
\* webhook message was ingested: the store's order is not the order of time
C11_Witness ==
    \E i, j \in 1..Len(store) :
        /\ i < j
        /\ InConversation(store[i], ALICE) /\ InConversation(store[j], ALICE)
        /\ store[i].timestamp > store[j].timestamp

\* C12: a contact who has only outbound documents (none inbound carries the
\* contact's id as wa_id) is in no list getConversations returns, and every
\* wa_id carried by an inbound document is in each list exactly once.
C12_InboundOnlyConversations ==
    \A q \in getConversations(store) :
        /\ \A i \in 1..Len(store) :
              (/\ store[i].isOutgoing
               /\ \A j \in 1..Len(store) :
                     ~store[j].isOutgoing => store[j].wa_id # store[i].toNumber)
              => \A k \in 1..Len(q) : q[k].wa_id # store[i].toNumber
        /\ \A i \in 1..Len(store) :
              ~store[i].isOutgoing =>
                  Cardinality({k \in 1..Len(q) : q[k].wa_id = store[i].wa_id}) = 1

\* Carol has only outbound documents, Alice an inbound one
C12_Witness ==
    /\ \E i \in 1..Len(store) : store[i].isOutgoing /\ store[i].toNumber = CAROL
    /\ \E i \in 1..Len(store) : ~store[i].isOutgoing /\ store[i].wa_id = ALICE
    /\ \A i \in 1..Len(store) : ~store[i].isOutgoing => store[i].wa_id # CAROL

\* a text with a character that is not a blank
NonBlank(t) == \E i \in 1..Len(t) : t[i] # " "

\* u is t without its leading and trailing blanks
IsTrimOf(u, t) ==
    /\ u # <<>> /\ u[1] # " " /\ u[Len(u)] # " "
    /\ \E a \in 0..Len(t) :
          /\ a + Len(u) <= Len(t)
          /\ SubSeq(t, a + 1, a + Len(u)) = u
          /\ \A i \in 1..Len(t) : (i <= a \/ i > a + Len(u)) => t[i] = " "

\* the summary of conversation w in the list q shows text u as sent last
ShowsSent(q, w, u) ==
    \E k \in 1..Len(q) :
        q[k].wa_id = w /\ q[k].lastMessage = u /\ q[k].isLastOutgoing

\* C13 as claimed: after a successful send of text t to conversation c that
\* has an inbound document, getConversations reports t as lastMessage of c,
\* with the outgoing flag.
C13_SendIsLastMessage ==
    [][\A w \in SendTargets, t \in SendTexts, k \in 1..MaxRand :
          (sendMessage(w, t, k) /\ resp'.success /\ contactInfos(store, w) # {}) =>
              \A q \in getConversations(store') :
                  \E u \in {store'[Len(store')].text} : IsTrimOf(u, t) /\ ShowsSent(q, w, u)
      ]_vars

\* C13 as amended: the same, provided every document of c's conversation has
\* a timestamp before the time of the send; the summary shows the document
\* of the greatest timestamp, which otherwise need not be the one just sent.
C13_SendIsLastMessageIfNewest ==
    [][\A w \in SendTargets, t \in SendTexts, k \in 1..MaxRand :
          (/\ sendMessage(w, t, k) /\ resp'.success
           /\ contactInfos(store, w) # {}
           /\ \A i \in 1..Len(store) :
                 InConversation(store[i], w) => store[i].timestamp < clock) =>
              \A q \in getConversations(store') :
                  \E u \in {store'[Len(store')].text} : IsTrimOf(u, t) /\ ShowsSent(q, w, u)
      ]_vars

\* a text was sent to Alice after her inbound message and after the clock
\* moved past that message's timestamp
C13_Witness ==
    /\ resp.success
    /\ store[Len(store)] = resp.message
    /\ resp.message.toNumber = ALICE
    /\ \E i \in 1..Len(store) :
          /\ ~store[i].isOutgoing /\ store[i].wa_id = ALICE
          /\ store[i].timestamp < resp.message.timestamp

\* C14: a successful send appends exactly one document, with isOutgoing true,
\* status "sent", contactName "You", the trimmed text, toNumber the target id
\* and fromNumber the business number (the configured one, else the built-in
\* default), under a messageId not stored before; the documents stored
\* before are unchanged.
C14_SendInsertsOne ==
    [][\A w \in SendTargets, t \in SendTexts, k \in 1..MaxRand :
          (sendMessage(w, t, k) /\ resp'.success) =>
              /\ Len(store') = Len(store) + 1
              /\ SubSeq(store', 1, Len(store)) = store
              /\ ~HasId(store, store'[Len(store')].messageId)
              /\ store'[Len(store')].isOutgoing
              /\ store'[Len(store')].status = "sent"
              /\ store'[Len(store')].contactName = "You"
              /\ IsTrimOf(store'[Len(store')].text, t)
              /\ store'[Len(store')].toNumber = w
              /\ store'[Len(store')].fromNumber =
                    (IF env = Null THEN "+1234567890" ELSE env)
              /\ store'[Len(store')].timestamp = clock
              /\ resp'.message = store'[Len(store')]
      ]_vars

\* a padded text was sent while the store held a document
C14_Witness ==
    /\ resp.success
    /\ Len(store) >= 2
    /\ store[Len(store)] = resp.message
    /\ resp.message.text = TxtHi

\* C15: a send whose text is missing, empty or blank, or whose conversation
\* id is absent, is answered 400 with success false and the validation error,
\* and leaves the store as it is.
C15_InvalidSendRejected ==
    [][\A w \in SendTargets, t \in SendTexts, k \in 1..MaxRand :
          (sendMessage(w, t, k) /\ (~NonBlank(t) \/ w = Null)) =>
              /\ store' = store
              /\ resp'.status = 400 /\ ~resp'.success
              /\ resp'.error = (IF ~NonBlank(t) THEN "Message text is required"
                                ELSE "wa_id is required")
      ]_vars

\* a send without text was refused while the store held a document
C15_Witness ==
    /\ resp.status = 400
    /\ resp.error = "Message text is required"
    /\ store # <<>>

\* C16 as claimed: a send whose generated messageId is already stored is
\* skipped as a duplicate without an error; nothing is inserted and the
\* stored document is not overwritten.
C16_DuplicateSendSkipped ==
    [][\A w \in SendTargets, t \in SendTexts, k \in 1..MaxRand :
          (/\ sendMessage(w, t, k) /\ NonBlank(t) /\ w # Null
           /\ \E i \in 1..Len(store) :
                 store[i].messageId = "msg_" \o ToString(clock) \o "_" \o ToString(k)) =>
              store' = store /\ resp'.error = Null
      ]_vars

\* C16 as amended: such a send is refused by the unique index: nothing is
\* inserted, the stored document is not overwritten, and the request is
\* answered with the error 400 "Message with this ID already exists".
C16_DuplicateSendRejected ==
    [][\A w \in SendTargets, t \in SendTexts, k \in 1..MaxRand :
          (/\ sendMessage(w, t, k) /\ NonBlank(t) /\ w # Null
           /\ \E i \in 1..Len(store) :
                 store[i].messageId = "msg_" \o ToString(clock) \o "_" \o ToString(k)) =>
              /\ store' = store
              /\ resp'.status = 400 /\ ~resp'.success
              /\ resp'.error = "Message with this ID already exists"
      ]_vars

\* a second send in the same millisecond drew the same random suffix
C16_Witness ==
    /\ resp.error = "Message with this ID already exists"
    /\ \E i \in 1..Len(store) : store[i].timestamp = clock /\ store[i].isOutgoing

\* C17: a malformed item of a run (a document that does not parse, a null
\* message entry, a null status entry) is skipped: the store is unchanged by
\* it and the run goes on with the siblings that follow it.
C17_MalformedItemSkipped ==
    [][/\ processMessages(1, NullEntry) =>
            /\ store' = store
            /\ runs'[1].nMsgs = runs[1].nMsgs - 1 /\ runs'[1].nSts = runs[1].nSts
       /\ processStatusUpdates(1, NullEntry) =>
            /\ store' = store
            /\ runs'[1].nSts = runs[1].nSts - 1
       /\ \A f \in Files :
            (f.kind = "badjson" /\ processWebhookFile(1, f)) =>
                store' = store /\ runs'[1].pc = "idle"
      ]_vars

\* C18: a document without the metaData.entry / changes / value path is
\* reported as an invalid structure (no batch), changes nothing in the store
\* and leaves the run ready for the next document.
C18_NoBatchSkipped ==
    [][\A f \in Files :
          (f.kind = "nopath" /\ processWebhookFile(1, f)) =>
              /\ store' = store
              /\ log' = [msg |-> "invalidStructure", id |-> Null]
              /\ runs'[1].pc = "idle"
              /\ runs'[1].nMsgs = 0 /\ runs'[1].nSts = 0
      ]_vars

\* a document without the path was met after a message had been stored
C18_Witness ==
    /\ log.msg = "invalidStructure"
    /\ runs[1].pc = "idle"
    /\ \E i \in 1..Len(store) : store[i].messageId \in MsgIds

\* C19: when the batch has no business number (none in the metadata, none
\* configured), a message entry with an id, a sender and a numeric timestamp
\* is inbound and its save stores a document.
C19_NoBusinessStillStored ==
    [][(/\ saveMessage(1)
        /\ runs[1].businessNumber = Null
        /\ runs[1].cur.messageId # Null
        /\ runs[1].cur.fromNumber # Null
        /\ runs[1].cur.timestamp # NaN) =>
            /\ ~runs[1].cur.isOutgoing
            /\ HasId(store', runs[1].cur.messageId)
      ]_vars

\* a timestamp written as a decimal integer, with an optional minus sign
IsDecimal(raw) ==
    LET d == IF raw # <<>> /\ raw[1] = "-" THEN Tail(raw) ELSE raw
    IN d # <<>> /\ \A i \in 1..Len(d) : d[i] \in {"0", "1", "2", "3", "4", "5", "6", "7", "8", "9"}

\* the number of seconds it denotes, read from the last digit to the first
RECURSIVE Magnitude(_)
Magnitude(d) ==
    IF d = <<>> THEN 0
    ELSE 10 * Magnitude(SubSeq(d, 1, Len(d) - 1))
         + (CHOOSE n \in 0..9 : ToString(n) = d[Len(d)])

Seconds(raw) == IF raw[1] = "-" THEN 0 - Magnitude(Tail(raw)) ELSE Magnitude(raw)

C21_StatusAtInsertion ==
    [][\A i \in (Len(store) + 1)..Len(store') :
          /\ store'[i].status = "received" <=> ~store'[i].isOutgoing
          /\ store'[i].status = "sent" <=> store'[i].isOutgoing
      ]_vars

\* an outbound webhook message was just stored beside an inbound one and a
\* document of sendMessage
C21_Witness ==
    /\ log.msg = "saved"
    /\ store[Len(store)].isOutgoing /\ store[Len(store)].messageId = log.id
    /\ \E i \in 1..Len(store) : ~store[i].isOutgoing
    /\ \E i \in 1..Len(store) : store[i].isOutgoing /\ store[i].messageId \notin MsgIds

\* the documents of s that are newest in the conversation of id: wa_id or
\* toNumber is id and no document of the conversation has a greater timestamp
Newest(s, id) ==
    {i \in 1..Len(s) :
        /\ (s[i].wa_id = id \/ s[i].toNumber = id)
        /\ \A j \in 1..Len(s) :
              (s[j].wa_id = id \/ s[j].toNumber = id) => s[j].timestamp <= s[i].timestamp}

\* C22 (as stated): every summary of getConversations carries the text, the
\* timestamp and the direction of the newest document of its conversation.
C22_SummaryIsNewest ==
    \A L \in getConversations(store) : \A k \in 1..Len(L) :
        \E i \in Newest(store, L[k].wa_id) :
            /\ L[k].lastMessage = store[i].text
            /\ L[k].lastMessageTime = store[i].timestamp
            /\ L[k].isLastOutgoing = store[i].isOutgoing

\* C22 (amended): every summary carries the timestamp and the direction of a
\* newest document of its conversation, and its text, or "No message" when
\* that text is empty.
C22_SummaryIsNewestOrNoMessage ==
    \A L \in getConversations(store) : \A k \in 1..Len(L) :
        \E i \in Newest(store, L[k].wa_id) :
            /\ L[k].lastMessage = IF store[i].text = <<>> THEN NoMessage
                                  ELSE store[i].text
            /\ L[k].lastMessageTime = store[i].timestamp
            /\ L[k].isLastOutgoing = store[i].isOutgoing

\* two conversations are listed: one ends with a message of the business
\* that followed the contact's own, the other with a media message without text
C22_Witness ==
    \E L \in getConversations(store) : \E k, n \in 1..Len(L) :
        /\ L[k].isLastOutgoing
        /\ \E i \in 1..Len(store) :
              store[i].wa_id = L[k].wa_id /\ store[i].timestamp < L[k].lastMessageTime
        /\ L[n].lastMessage = NoMessage

\* C23: every list getConversations can answer is sorted by lastMessageTime,
\* newest first, whatever ingestions and sends built the store.
C23_ConversationsNewestFirst ==
    \A L \in getConversations(store) : \A k \in 1..(Len(L) - 1) :
        L[k].lastMessageTime >= L[k + 1].lastMessageTime

\* two conversations with different last times are listed
C23_Witness ==
    \E L \in getConversations(store) :
        Len(L) = 2 /\ L[1].lastMessageTime > L[2].lastMessageTime

\* C24: getMessages(id) answers exactly the stored documents whose wa_id or
\* toNumber is id, each once; for an id no document carries the answer is a
\* success with an empty list.
C24_MessagesExactlyConversation ==
    \A w \in QueryIds :
        LET r == getMessagesReply(store, w)
            fit == {i \in 1..Len(store) : store[i].wa_id = w \/ store[i].toNumber = w}
        IN /\ r.status = 200 /\ r.success
           /\ \A i \in fit : \E k \in 1..Len(r.messages) : r.messages[k] = store[i]
           /\ \A k \in 1..Len(r.messages) : \E i \in fit : r.messages[k] = store[i]
           /\ Len(r.messages) = Cardinality(fit)

\* one id is answered with a document found by wa_id and one found by
\* toNumber while the store holds others, and another id with nothing
C24_Witness ==
    /\ \E w \in QueryIds :
          LET r == getMessagesReply(store, w)
          IN /\ \E k \in 1..Len(r.messages) : r.messages[k].wa_id = w
             /\ \E k \in 1..Len(r.messages) :
                   r.messages[k].wa_id # w /\ r.messages[k].toNumber = w
             /\ Len(r.messages) < Len(store)
    /\ \E w \in QueryIds : getMessagesReply(store, w).messages = <<>>

\* a type outside the enum, no id, or no sender
Unfit(e) == e.type \notin MessageTypes \/ e.id = Null \/ e.from = Null

\* C27: a message entry with a type outside the enum, without id or without
\* sender is never stored: unless its id is stored already, and it is skipped
\* as a duplicate, it is carried to the save, which rejects it; either way
\* the store is unchanged and the run goes on with the entries that remain.
C27_UnfitEntryRejected ==
    [][/\ \A e \in BadEntries :
             runs[1].pc = "msgs" /\ Unfit(e) /\ processMessages(1, e)
                 => /\ store' = store
                    /\ runs'[1].cur.messageId = e.id
                    /\ runs'[1].cur.fromNumber = e.from
                    /\ runs'[1].cur.messageType = e.type
                    /\ IF HasId(store, e.id)
                       THEN /\ log' = Line("exists", e.id)
                            /\ runs'[1].nMsgs = runs[1].nMsgs - 1
                            /\ runs'[1].pc = IF runs[1].nMsgs > 1 THEN "msgs" ELSE "idle"
                       ELSE runs'[1].pc = "save"
       /\ (/\ runs[1].pc = "save"
           /\ \/ runs[1].cur.messageType \notin MessageTypes
              \/ runs[1].cur.messageId = Null
              \/ runs[1].cur.fromNumber = Null
           /\ saveMessage(1))
             => /\ store' = store
                /\ log' = Line("ValidationError", runs[1].cur.messageId)
                /\ runs'[1].nMsgs = runs[1].nMsgs - 1
                /\ runs'[1].pc = IF runs[1].nMsgs > 1 THEN "msgs" ELSE "idle"
      ]_vars

\* an entry of an unknown type was just rejected, after a message was stored
\* and with entries of the file still to come
C27_Witness ==
    /\ log.msg = "ValidationError"
    /\ runs[1].cur.messageType \notin MessageTypes
    /\ runs[1].pc = "msgs" /\ runs[1].nMsgs >= 1
    /\ store # <<>>

\* the first reading of the file has returned
ReadOnce == pass >= 1 /\ runs[1].pc = "idle"

\* the stored document m carries what entry e carries
FromEntry(m, e) ==
    /\ m.messageId = e.id /\ m.fromNumber = e.from /\ m.text = e.text
    /\ <<m.timestamp>> = Times(ParseInt(e.timestamp), 1000)

\* entry e of the file builds a document the schema accepts
Fit(e) ==
    /\ ~IsNullEntry(e)
    /\ LET md == createMessageFromWebhook(e, file.h.contacts,
                                          businessNumberOf(file.h.display, env))
       IN md # <<>> /\ Validate(md[1])

\* the place in the file's array of the first entry with the id, and of the
\* first one with the id that the schema accepts
FirstWith(id) ==
    CHOOSE k \in 1..Len(file.msgs) :
        /\ ~IsNullEntry(file.msgs[k]) /\ file.msgs[k].id = id
        /\ \A j \in 1..(k - 1) : IsNullEntry(file.msgs[j]) \/ file.msgs[j].id # id
FirstFit(id) ==
    CHOOSE k \in 1..Len(file.msgs) :
        /\ Fit(file.msgs[k]) /\ file.msgs[k].id = id
        /\ \A j \in 1..(k - 1) : ~Fit(file.msgs[j]) \/ file.msgs[j].id # id

\* C25 (as stated): once a file is read, the document stored for a messageId
\* of the file (not stored before) is built from the first entry of the array
\* that carries the id.
C25_FirstEntryStored ==
    ReadOnce =>
        \A id \in FileIds : \A i \in 1..Len(store) :
            store[i].messageId = id /\ ~HasId(snap.init, id)
                => FromEntry(store[i], file.msgs[FirstWith(id)])

\* C25 (amended): once a file is read, each messageId of the file not stored
\* before has one document if an entry carries it in a form the schema
\* accepts, built from the first such entry, and none otherwise; the
\* documents stand in the store in the order of those entries; and an entry
\* that follows an accepted entry of the same id is skipped as a duplicate,
\* the store unchanged.
C25_FirstFitEntryStored ==
    /\ [](ReadOnce =>
            /\ \A id \in FileIds :
                  ~HasId(snap.init, id) =>
                      IF Storable(id)
                      THEN /\ Count(store, id) = 1
                           /\ \A i \in 1..Len(store) :
                                 store[i].messageId = id
                                     => FromEntry(store[i], file.msgs[FirstFit(id)])
                      ELSE Count(store, id) = 0
            /\ \A i, j \in 1..Len(store) :
                  (/\ i < j
                   /\ store[i].messageId \in FileIds /\ store[j].messageId \in FileIds
                   /\ ~HasId(snap.init, store[i].messageId)
                   /\ ~HasId(snap.init, store[j].messageId))
                      => FirstFit(store[i].messageId) < FirstFit(store[j].messageId))
    /\ [][\A e \in IdemEntries \ {NullEntry} :
             (/\ pass = 1 /\ runs[1].pc = "msgs"
              /\ \E k \in 1..Len(file.msgs) :
                    Fit(file.msgs[k]) /\ file.msgs[k].id = e.id
              /\ processMessages(1, e))
                 => /\ store' = store
                    /\ log' = Line("exists", e.id)
                    /\ runs'[1].nMsgs = runs[1].nMsgs - 1
                    /\ runs'[1].pc # "save"
         ]_vars

\* a file was read whose array carries one new id three times: first with a
\* timestamp that is no number, then twice in an accepted form with
\* different content; the store holds the second entry's document
C25_Witness ==
    /\ ReadOnce
    /\ \E id \in FileIds :
          /\ ~HasId(snap.init, id)
          /\ \E a, b, c \in 1..Len(file.msgs) :
                /\ a < b /\ b < c
                /\ ~IsNullEntry(file.msgs[a]) /\ file.msgs[a].id = id
                /\ ~Fit(file.msgs[a])
                /\ Fit(file.msgs[b]) /\ file.msgs[b].id = id
                /\ Fit(file.msgs[c]) /\ file.msgs[c].id = id
                /\ file.msgs[b].from # file.msgs[c].from
                /\ \E i \in 1..Len(store) : FromEntry(store[i], file.msgs[b])

\* C26: a status entry is aimed at its id, or at its meta_msg_id when it has
\* no id: that document and no other takes the entry's status; an entry with
\* neither reaches no store call, store and log stay as they are.
C26_StatusTarget ==
    [][\A se \in RunStatuses :
          (up /\ runs[1].pc = "sts" /\ processStatusUpdates(1, se)) =>
              LET target == IF se.id # Null THEN se.id ELSE se.meta_msg_id
              IN IF target = Null
                 THEN store' = store /\ log' = log
                 ELSE /\ log'.id = target
                      /\ log'.msg \in {"updated", "notFound"}
                      /\ Len(store') = Len(store)
                      /\ \A i \in 1..Len(store) :
                            store'[i] = IF store[i].messageId = target
                                        THEN [store[i] EXCEPT !.status = se.status,
                                                              !.updatedAt = clock]
                                        ELSE store[i]
      ]_vars

\* an entry with id m2 and meta_msg_id m1 has just set the status of m2,
\* with m1 stored beside it and untouched
C26_Witness ==
    /\ log = Line("updated", "m2")
    /\ \E i, j \in 1..Len(store) :
          /\ store[i].messageId = "m2" /\ store[i].status = "failed"
          /\ store[j].messageId = "m1" /\ store[j].status # "failed"

\* C28: once a store call of the run has failed on an unreachable store the
\* run stops: it takes no further entry, starts no further document and does
\* not end as completed.
C28_RunAbortsOnStoreLoss ==
    [][(~up /\ log.msg \in {"errorSaving", "errorUpdating"}) => runs' = runs]_vars

\* C29: a document inserted after a status update for its messageId found
\* nothing carries the status of its direction, not the status of that
\* update; a status update that finds its document sets the status.  So
\* the status of a message depends on which of the two comes first.
C29_EarlyStatusLost ==
    [][/\ \A i \in (Len(store) + 1)..Len(store') :
             \A l \in lost' :
                 l.id = store'[i].messageId =>
                     /\ store'[i].status # l.status
                     /\ store'[i].status = IF store'[i].isOutgoing THEN "sent"
                                           ELSE "received"
       /\ \A se \in RunStatuses :
             (/\ up /\ runs[1].pc = "sts" /\ se.id # Null /\ HasId(store, se.id)
              /\ processStatusUpdates(1, se))
                 => \A i \in 1..Len(store') :
                       store'[i].messageId = se.id => store'[i].status = se.status
      ]_vars

\* m1 was stored after two status updates for it had found nothing: it
\* still carries the status it was built with
C29_Witness ==
    /\ \E i \in 1..Len(store) :
          /\ store[i].messageId = "m1"
          /\ store[i].status = "received"
    /\ \E l, k \in lost : l.id = "m1" /\ k.id = "m1" /\ l.status # k.status
    /\ runs[1].pc = "done"

\* the messageId a status entry of the file is aimed at
TargetOf(se) == IF IsNullEntry(se) THEN Null ELSE OrElse(se.id, se.meta_msg_id)

\* the places in the file's status array of the entries aimed at id
Aimed(id) == {k \in 1..Len(file.sts) : TargetOf(file.sts[k]) = id}

\* C30: when the first reading of a document has returned, every status
\* entry of the document has been applied after its message entries: a stored
\* message of the document that status entries of the document are aimed at
\* carries the status of the last of them, and no status entry was left out.
C30_SameDocumentStatusApplies ==
    (ReadOnce /\ pass = 1) =>
        /\ (\E id \in FileIds : HasId(store, id)) => Len(file.sts) = file.h.nSts
        /\ \A id \in FileIds : \A i \in 1..Len(store) :
              (store[i].messageId = id /\ Aimed(id) # {})
                  => \E k \in Aimed(id) :
                        /\ \A j \in Aimed(id) : j <= k
                        /\ store[i].status = file.sts[k].status

\* C31: while a document is read for the first time, a stored message that
\* status entries of the document were aimed at carries the status of the
\* last of them, whatever the earlier ones and the direction of the message.
C31_LastStatusWins ==
    pass = 1 =>
        \A i \in 1..Len(store) :
            LET hits == Aimed(store[i].messageId)
            IN hits # {} =>
                   \E k \in hits :
                       /\ \A j \in hits : j <= k
                       /\ store[i].status = file.sts[k].status

\* an inbound message was set to "read" and then to "delivered" by status
\* entries of one document, and is "delivered"
C31_Witness ==
    /\ pass = 1
    /\ \E i \in 1..Len(store) : \E j, k \in Aimed(store[i].messageId) :
          /\ j < k
          /\ file.sts[j].status = "read" /\ file.sts[k].status = "delivered"
          /\ ~store[i].isOutgoing
          /\ store[i].status = "delivered"

\* the reply of getMessages, getConversations or getHealth
IsReadReply(r) ==
    "messages" \in DOMAIN r \/ "conversations" \in DOMAIN r \/ "health" \in DOMAIN r

\* C32: no step removes a document: the store keeps every document at its
\* place with its messageId and only grows; a step of a read handler (no run
\* moves, no time passes, the reply is one of getMessages, getConversations
\* or getHealth) leaves the store as it is.
C32_NothingRemoved ==
    [][/\ Len(store') >= Len(store)
       /\ \A i \in 1..Len(store) : store'[i].messageId = store[i].messageId
       /\ (runs' = runs /\ clock' = clock /\ IsReadReply(resp')) => store' = store
      ]_vars

\* getHealth has answered on a store of two documents, one of them with an
\* updated status
C32_Witness ==
    /\ "health" \in DOMAIN resp /\ resp.health = "OK"
    /\ Len(store) >= 2
    /\ \E i \in 1..Len(store) : store[i].status = "read"

\* C33: a message entry sent by the business number in a file without
\* contacts is built with no toNumber and never stored: unless its id is
\* stored already, and it is skipped as a duplicate, the save rejects it;
\* either way the store is unchanged and the run goes on with the entries
\* that remain.
C33_OutboundWithoutContacts ==
    [][/\ \A e \in MsgEntries \ {NullEntry} :
             (/\ runs[1].pc = "msgs" /\ runs[1].contacts = <<>>
              /\ Truthy(runs[1].businessNumber) /\ e.from = runs[1].businessNumber
              /\ processMessages(1, e))
                 => /\ store' = store
                    /\ runs'[1].cur.messageId = e.id
                    /\ runs'[1].cur.isOutgoing
                    /\ runs'[1].cur.toNumber = Null
                    /\ IF HasId(store, e.id)
                       THEN /\ log' = Line("exists", e.id)
                            /\ runs'[1].nMsgs = runs[1].nMsgs - 1
                            /\ runs'[1].pc = PcOf(runs[1].nMsgs - 1, runs[1].nSts)
                       ELSE runs'[1].pc = "save"
       /\ (/\ runs[1].pc = "save"
           /\ runs[1].cur.isOutgoing /\ runs[1].cur.toNumber = Null
           /\ saveMessage(1))
             => /\ store' = store
                /\ log' = Line("ValidationError", runs[1].cur.messageId)
                /\ runs'[1].nMsgs = runs[1].nMsgs - 1
                /\ runs'[1].pc = PcOf(runs[1].nMsgs - 1, runs[1].nSts)
      ]_vars

\* an outbound entry without recipient was just rejected, with an inbound
\* message in the store and entries of the file still to come
C33_Witness ==
    /\ log.msg = "ValidationError"
    /\ runs[1].cur # NoData /\ runs[1].cur.isOutgoing /\ runs[1].cur.toNumber = Null
    /\ runs[1].contacts = <<>>
    /\ runs[1].pc = "msgs" /\ runs[1].nMsgs >= 1
    /\ \E i \in 1..Len(store) : ~store[i].isOutgoing

\* the value at entry[0].changes[0] of a document, NullEntry when there is
\* none
FirstValue(doc) ==
    IF doc.entry = <<>> THEN NullEntry
    ELSE IF doc.entry[1].changes = <<>> THEN NullEntry
    ELSE doc.entry[1].changes[1].value

\* C34: when a run opens a document it takes up the messages and statuses
\* of the value at entry[0].changes[0] and nothing else: without that value
\* the document is dropped as invalid, whatever its other entries and
\* changes carry, and while the document is read no more entries are left
\* to read than that value holds.
C34_FirstEntryFirstChangeOnly ==
    /\ []("doc" \in DOMAIN file =>
             LET first == FirstValue(file.doc)
             IN IF IsNullEntry(first)
                THEN runs[1].nMsgs = 0 /\ runs[1].nSts = 0 /\ runs[1].pc = "idle"
                ELSE runs[1].nMsgs <= first.nMsgs /\ runs[1].nSts <= first.nSts)
    /\ [][(runs[1].pc = "idle" /\ ops' # ops) =>
             LET first == FirstValue(file'.doc)
             IN IF IsNullEntry(first)
                THEN /\ store' = store
                     /\ runs'[1].pc = "idle"
                     /\ log' = Line("invalidStructure", Null)
                ELSE /\ store' = store
                     /\ runs'[1].nMsgs = first.nMsgs /\ runs'[1].nSts = first.nSts
                     /\ runs'[1].contacts = first.contacts
                     /\ log' = Line("processing", Null)
         ]_vars

\* a document was read to its end whose first change holds one message,
\* whose second change and second entry hold more: one message is stored
C34_Witness ==
    /\ "doc" \in DOMAIN file
    /\ Len(file.doc.entry) = 2
    /\ Len(file.doc.entry[1].changes) = 2
    /\ \A c \in {file.doc.entry[1].changes[1], file.doc.entry[1].changes[2]} :
          ~IsNullEntry(c.value) /\ c.value.nMsgs = 1
    /\ \E j \in 1..Len(file.doc.entry[2].changes) :
          /\ ~IsNullEntry(file.doc.entry[2].changes[j].value)
          /\ file.doc.entry[2].changes[j].value.nMsgs = 1
    /\ runs[1].pc = "idle" /\ ops = 2
    /\ Len(store) = 1 /\ log.msg = "saved"

\* C35: on every store getHealth counts as totalMessages the stored
\* documents and as totalConversations the summaries getConversations
\* answers with, the distinct wa_ids of the inbound documents.
C35_HealthCounts ==
    /\ getHealth(store).totalMessages = Len(store)
    /\ \A L \in getConversations(store) :
          /\ Len(L) = getHealth(store).totalConversations
          /\ {L[k].wa_id : k \in 1..Len(L)}
                 = {store[i].wa_id : i \in {j \in 1..Len(store) : ~store[j].isOutgoing}}

\* two conversations among three documents, one of them an outbound
\* webhook message
C35_Witness ==
    /\ getHealth(store).totalConversations = 2
    /\ getHealth(store).totalMessages = 3
    /\ \E i \in 1..Len(store) : store[i].wa_id = "business"

(***************************************************************************)
(* The chat window (ChatWindow.jsx) inside App (App.jsx).  The api service  *)
(* never throws: getMessages and sendMessage answer { success: true, ... }  *)
(* or { success: false, error }, and axios gives up after REQUEST_TIMEOUT,  *)
(* so every request is answered.  A request is one element of ui.reqs from  *)
(* the call to the answer; conv and text are what its closure holds, live   *)
(* says whether the window that issued it is still mounted (a state update  *)
(* on an unmounted component does nothing), n is when it was issued.        *)
(* Only the issue of a request counts against MaxOps.                       *)
(***************************************************************************)
getConversationId(c) == OrElse(c.wa_id, c.phoneNumber)

Request == ops < MaxOps /\ ops' = ops + 1

\* the form is rendered: neither the spinner nor the error screen returned
FormShown == ui.selected # NoChat /\ ~ui.loading /\ ui.error = Null

\* App.handleChatSelect(c) for a row c of the sidebar, then the effect on
\* [conversation?.wa_id]: loadMessages up to its await
handleChatSelect(c) ==
    LET chat == [wa_id |-> c.wa_id, phoneNumber |-> c.phoneNumber]
        load == [kind |-> "load", conv |-> chat, text |-> <<>>,
                 live |-> TRUE, n |-> ops]
    IN  /\ IF ui.selected = NoChat
           THEN /\ Request
                /\ ui' = [ui EXCEPT !.selected = chat,
                                    !.messages = FreshWindow.messages,
                                    !.loading = TRUE,
                                    !.error = Null,
                                    !.newMessage = FreshWindow.newMessage,
                                    !.sending = FreshWindow.sending,
                                    !.reqs = @ \cup {load}]
           ELSE IF chat.wa_id # ui.selected.wa_id
           THEN /\ Request
                /\ ui' = [ui EXCEPT !.selected = chat,
                                    !.loading = TRUE,
                                    !.error = Null,
                                    !.reqs = @ \cup {load}]
           ELSE /\ ui' = [ui EXCEPT !.selected = chat]
                /\ ops' = ops
        /\ UNCHANGED <<prog, file, pass, snap, up, lost>>

\* App.handleBackToSidebar: selectedChat is null, the window unmounts
handleBackToSidebar ==
    /\ ui.selected # NoChat
    /\ ui' = [ui EXCEPT !.selected = NoChat,
                        !.messages = FreshWindow.messages,
                        !.loading = FreshWindow.loading,
                        !.error = FreshWindow.error,
                        !.newMessage = FreshWindow.newMessage,
                        !.sending = FreshWindow.sending,
                        !.reqs = {[q EXCEPT !.live = FALSE] : q \in @}]
    /\ UNCHANGED <<prog, ops, file, pass, snap, up, lost>>

\* the answers of api.getMessages(identifier): the conversation's messages,
\* or a failure
LoadReplies(q) ==
    {[kind |-> "load", success |-> TRUE,
      messages |-> <<[of |-> getConversationId(q.conv), text |-> TxtHi,
                      timestamp |-> Num(StartTime)]>>],
     [kind |-> "load", success |-> FALSE, messages |-> <<>>]}

\* loadMessages from its await on
loadMessagesDone(q, r) ==
    /\ q \in ui.reqs /\ q.kind = "load"
    /\ ui' = IF q.live
             THEN [ui EXCEPT !.messages = IF r.success THEN r.messages ELSE @,
                             !.error = IF r.success THEN @
                                       ELSE "Failed to load messages",
                             !.loading = FALSE,
                             !.reqs = @ \ {q},
                             !.reply = r]
             ELSE [ui EXCEPT !.reqs = @ \ {q}, !.reply = r]
    /\ UNCHANGED <<prog, ops, file, pass, snap, up, lost>>

\* onChange of the textarea, which is disabled while sending
setNewMessage(t) ==
    /\ FormShown /\ ~ui.sending
    /\ ui' = [ui EXCEPT !.newMessage = t]
    /\ UNCHANGED <<prog, ops, file, pass, snap, up, lost>>

\* (variant: sending is not set)
handleSendMessageNoSending ==
    /\ FormShown
    /\ IF Trim(ui.newMessage) = <<>> \/ ui.sending
       THEN UNCHANGED <<ui, ops>>
       ELSE /\ Request
            /\ ui' = [ui EXCEPT
                  !.newMessage = <<>>,
                  !.reqs = @ \cup {[kind |-> "send", conv |-> ui.selected,
                                    text |-> Trim(ui.newMessage),
                                    live |-> TRUE, n |-> ops]}]
    /\ UNCHANGED <<prog, file, pass, snap, up, lost>>

\* handleSendMessage up to its await
handleSendMessage ==
    /\ FormShown
    /\ IF Trim(ui.newMessage) = <<>> \/ ui.sending
       THEN UNCHANGED <<ui, ops>>
       ELSE /\ Request
            /\ ui' = [ui EXCEPT
                  !.newMessage = <<>>,
                  !.sending = TRUE,
                  !.reqs = @ \cup {[kind |-> "send", conv |-> ui.selected,
                                    text |-> Trim(ui.newMessage),
                                    live |-> TRUE, n |-> ops]}]
    /\ UNCHANGED <<prog, file, pass, snap, up, lost>>

\* the answers of api.sendMessage(identifier, messageText, contactName): the
\* stored message, a message without timestamp, or a failure
SendReplies(q) ==
    {[kind |-> "send", success |-> TRUE,
      message |-> [of |-> getConversationId(q.conv), text |-> q.text,
                   timestamp |-> t]] :
        t \in {Num(StartTime + 1), Num(StartTime + 3), NaN}}
    \cup {[kind |-> "send", success |-> FALSE, message |-> NullEntry]}

\* sentMessage && typeof sentMessage === 'object' && sentMessage.timestamp
Sent(r) == r.success /\ ~IsNullEntry(r.message) /\ r.message.timestamp # NaN

\* (variant: the list is left in the order of the map)
sortConversationsByTimeOff(cs) == cs

sortConversationsByTime(cs) == SortByLastTime(cs)

updateConversationInList(cs, updated) ==
    sortConversationsByTime(
        [i \in 1..Len(cs) |->
            IF cs[i].phoneNumber = updated.phoneNumber
            THEN [cs[i] EXCEPT !.wa_id = updated.wa_id,
                               !.phoneNumber = updated.phoneNumber,
                               !.lastMessage = updated.lastMessage,
                               !.lastMessageTime = updated.lastMessageTime]
            ELSE cs[i]])

\* handleSendMessage from its await on: try, catch and finally
sendMessageDone(q, r) ==
    /\ q \in ui.reqs /\ q.kind = "send"
    /\ LET listed == IF Sent(r)
                     THEN updateConversationInList(ui.conversations,
                              [wa_id |-> q.conv.wa_id,
                               phoneNumber |-> q.conv.phoneNumber,
                               lastMessage |-> q.text,
                               lastMessageTime |-> r.message.timestamp[1]])
                     ELSE ui.conversations
       IN ui' = IF q.live
                THEN [ui EXCEPT
                        !.messages = IF Sent(r) THEN Append(@, r.message) ELSE @,
                        !.newMessage = IF Sent(r) THEN @ ELSE q.text,
                        !.sending = FALSE,
                        !.conversations = listed,
                        !.reqs = @ \ {q},
                        !.reply = r]
                ELSE [ui EXCEPT !.conversations = listed,
                                !.reqs = @ \ {q},
                                !.reply = r]
    /\ UNCHANGED <<prog, ops, file, pass, snap, up, lost>>

(***************************************************************************)
(* SpecUi: one user on the desktop layout (the sidebar stays visible beside *)
(* the chat window) and the answers of the api service.                     *)
(***************************************************************************)
UiLoaded ==
    \E q \in {p \in ui.reqs : p.kind = "load"} :
        \E r \in LoadReplies(q) : loadMessagesDone(q, r)
UiSent ==
    \E q \in {p \in ui.reqs : p.kind = "send"} :
        \E r \in SendReplies(q) : sendMessageDone(q, r)

NextUi ==
    \/ \E i \in 1..Len(ui.conversations) : handleChatSelect(ui.conversations[i])
    \/ handleBackToSidebar
    \/ \E t \in {TxtPadded, TxtBlank} : setNewMessage(t)
    \/ handleSendMessage
    \/ UiLoaded
    \/ UiSent

SpecUi == Init /\ [][NextUi]_vars

\* every request is answered: the timeout of the axios instance ends it
LiveUi == SpecUi /\ WF_vars(UiLoaded) /\ WF_vars(UiSent)

(***************************************************************************)
(* C36: in the chat window, once no load or send request is in flight,     *)
(* every message of the displayed list belongs to the selected             *)
(* conversation: an answer that arrives after the user switched to another  *)
(* conversation puts no message of the previous one into the list.          *)
(***************************************************************************)
C36_DisplayedBelongToSelected ==
    (FormShown /\ ui.reqs = {}) =>
        \A i \in 1..Len(ui.messages) :
            ui.messages[i].of = getConversationId(ui.selected)

\* the send requests in flight, and those of the window now mounted
Sends == {q \in ui.reqs : q.kind = "send"}
LiveSends == {q \in Sends : q.live}
\* n tells the requests apart
SendIds == {q.n : q \in Sends}

(***************************************************************************)
(* C37: in the chat window at most one send request is in flight at any    *)
(* time; a submit while sending is true issues no request; after every send *)
(* attempt sending eventually returns to false.                             *)
(***************************************************************************)
C37_OneSendInFlight ==
    /\ [](Cardinality(Sends) <= 1)
    /\ [][ui.sending => SendIds' \subseteq SendIds]_vars
    /\ (ui.sending ~> ~ui.sending)

\* C37, per mounted window: the window now mounted has at most one send
\* request of its own in flight, and sending is true exactly while it has
\* one; a step taken while sending is true adds no send request; sending
\* always returns to false.
C37_OneSendPerWindow ==
    /\ [](Cardinality(LiveSends) <= 1 /\ (ui.sending <=> LiveSends # {}))
    /\ [][ui.sending => SendIds' \subseteq SendIds]_vars
    /\ (ui.sending ~> ~ui.sending)

\* the window is sending while a request of a closed window is still in flight
C37_Witness ==
    /\ ui.sending
    /\ Cardinality(LiveSends) = 1
    /\ Cardinality(Sends) = 2

\* the sidebar is in descending order of lastMessageTime
Sorted(cs) ==
    \A i, j \in 1..Len(cs) :
        i < j => cs[i].lastMessageTime >= cs[j].lastMessageTime

\* the rows of the sidebar that are not those of conversation c
OtherRows(cs, c) ==
    {cs[i] : i \in {k \in 1..Len(cs) : cs[k].phoneNumber # c.phoneNumber}}

\* after the step the rows of q's conversation carry the text sent and the
\* time of the stored message, the other rows are as before, the list is sorted
Listed(q) ==
    /\ Len(ui'.conversations) = Len(ui.conversations)
    /\ OtherRows(ui'.conversations, q.conv) = OtherRows(ui.conversations, q.conv)
    /\ \A i \in 1..Len(ui'.conversations) :
          ui'.conversations[i].phoneNumber = q.conv.phoneNumber =>
             /\ ui'.conversations[i].lastMessage = q.text
             /\ ui'.conversations[i].lastMessageTime = ui'.reply.message.timestamp[1]
    /\ Sorted(ui'.conversations)

(***************************************************************************)
(* C38: when a send from the chat window fails (error answer or malformed  *)
(* message) the displayed list and the sidebar are unchanged and the draft  *)
(* is restored to the text submitted; when it succeeds exactly one message  *)
(* is appended, the conversation's lastMessage and lastMessageTime are      *)
(* updated and the sidebar stays sorted by lastMessageTime descending.      *)
(***************************************************************************)
C38_SendOutcome ==
    [][\A q \in Sends :
          q.n \notin SendIds' =>
             IF Sent(ui'.reply)
             THEN /\ ui'.messages = Append(ui.messages, ui'.reply.message)
                  /\ Listed(q)
             ELSE /\ ui'.messages = ui.messages
                  /\ ui'.conversations = ui.conversations
                  /\ ui'.newMessage = q.text]_vars

\* C38, told by whether the window that sent is still mounted when the
\* answer arrives: if it is, a failure leaves list and sidebar unchanged and
\* restores the draft to the trimmed text, a success appends the one message;
\* if it is not, list and draft are left alone; a success updates and sorts
\* the sidebar either way, a failure never touches it.
C38_SendOutcomeWhileMounted ==
    [][\A q \in Sends :
          q.n \notin SendIds' =>
             /\ IF Sent(ui'.reply)
                THEN /\ Listed(q)
                     /\ q.live => ui'.messages = Append(ui.messages, ui'.reply.message)
                ELSE /\ ui'.conversations = ui.conversations
                     /\ q.live => /\ ui'.messages = ui.messages
                                  /\ ui'.newMessage = q.text
             /\ ~q.live => /\ ui'.messages = ui.messages
                           /\ ui'.newMessage = ui.newMessage]_vars

\* the message typed with blanks around it was sent from the mounted window
\* and stored: it ends the list, and its conversation leads the sidebar
C38_Witness ==
    /\ ui.reply.kind = "send" /\ Sent(ui.reply)
    /\ ui.selected # NoChat
    /\ ui.messages # <<>>
    /\ ui.messages[Len(ui.messages)] = ui.reply.message
    /\ ui.conversations[1].phoneNumber = ALICE
    /\ ui.conversations[1].lastMessage = TxtHi
    /\ ui.conversations[1].lastMessageTime = StartTime + 3

====
